---- MODULE Spec2Model ----
(***************************************************************************)
(* State-machine model of the upload route, the Celery enrichment task,    *)
(* the enrichment pipeline and the Redis content cache of mss-metro-ai.    *)
(***************************************************************************)
EXTENDS Integers, Sequences, FiniteSets, TLC

\* ------------------------------------------------------------------ bounds
\* Number of POST /upload requests the model lets arrive.
MaxUploads == 2
\* Number of failures of the environment (a remote call that raises, a Redis
\* error, an expired cache entry, a killed attempt) the model lets happen.
MaxFaults == 4
\* Number of times the queue delivers one invocation's message.
MaxDeliveries == 2
\* Length, in chunks, of the descriptions handed to the comparison service.
MaxText == 3
\* Number of requests the query routes serve.
MaxRequests == 2
\* Largest max_retries a caller of send_message passes.
MaxSendRetries == 5

\* ------------------------------------------------------- program constants
\* @celery_app.task(..., max_retries=3)
max_retries == 3

\* ------------------------------------------------------------- input sets
Uploads == 1..MaxUploads
\* The invocations the queue may hold: the one each upload sends, and one more
\* copy of a message, delivered while the first delivery is still at work.
Stale == MaxUploads + 1
Slots == Uploads \cup {Stale}
Projects == {"p1", "p2"}
\* Bodies of the uploaded files; "" is the empty file.
Files == {"", "cat", "blank"}

VARIABLES
    up,         \* up[u]: the upload_file request u (its position and locals)
    blob,       \* the S3 bucket: key -> object body
    task,       \* task[u]: the process_image invocation created by upload u,
                \* task[Stale]: a second delivery of one of these messages
    cache,      \* Redis: key -> string value (absent keys are not in DOMAIN)
    index,      \* OpenSearch index: image_id -> record
    order,      \* uploads in the order their 200 response was returned
    ctask,      \* the compare_images_task invocation a client has sent
    req,        \* the POST /compare or POST /query request being served
    lc,         \* a call of LangChainQueryService.structure_comparison_response
    sqs,        \* a call of sqs_client.send_message
    faults      \* failures of the environment so far

vars == <<up, blob, task, cache, index, order, ctask, req, lc, sqs, faults>>

\* A step in which the environment fails, and one in which it does not.
Fault == faults < MaxFaults /\ faults' = faults + 1
NoFault == UNCHANGED faults

\* ------------------------------------------------ external capabilities
\* compress_image re-encodes the body as JPEG: what S3 holds is not the upload.
compress_image(d) == <<"jpeg", d>>

\* len(image_data) of a stored body.
size_bytes(body) == IF body[2] = "cat" THEN 3 ELSE 5

\* Embed(bytes) -> vector, deterministic; a vector is a sequence of numerals.
generate_image_embedding(body) ==
    IF body[2] = "cat" THEN <<"0.1", "0.2">> ELSE <<"0.3", "0.4">>

\* Caption(bytes) -> text, deterministic. A text is the sequence of its
\* characters, written in chunks (a chunk is a blank or a run of letters),
\* <<>> the empty string: a blank image gets the empty caption.
generate_caption(body) == IF body[2] = "cat" THEN <<"a", " ", "cat">> ELSE <<>>

\* ------------------------------------------------------------------- json
RECURSIVE json_items(_)
json_items(v) ==
    IF v = <<>> THEN <<>>
    ELSE IF Len(v) = 1 THEN <<v[1]>>
    ELSE <<v[1], ",">> \o json_items(Tail(v))

\* json.dumps of a list of numbers: the text, token by token.
json_dumps(v) == <<"[">> \o json_items(v) \o <<"]">>

json_loads_drop_last(s) == [i \in 1..((Len(s) - 1) \div 2 - 1) |-> s[2 * i]]

\* json.loads of a list text: its numbers are every other token between the
\* brackets.
json_loads(s) == [i \in 1..((Len(s) - 1) \div 2) |-> s[2 * i]]

\* The texts json.loads parses as a list: brackets around items that commas
\* separate. Of any other text it raises JSONDecodeError.
json_valid(s) ==
    /\ Len(s) >= 2 /\ s[1] = "[" /\ s[Len(s)] = "]"
    /\ Len(s) = 2 \/ Len(s) % 2 = 1
    /\ \A i \in 2..(Len(s) - 1) : (s[i] = ",") <=> (i % 2 = 1)

\* "str | None" as returned by cache.get: {} is None, {s} the string s.
None == {}
Some(s) == {s}
ValueOf(r) == CHOOSE s \in r : TRUE

\* Python truthiness of a "str | None": neither None nor the empty string.
Truthy(r) == r # None /\ r # Some(<<>>)

\* ------------------------------------------------------------------ keys
\* generate_s3_key: "<project_id>/year=.../<ulid>.<ext>", a fresh ULID per call.
generate_s3_key(project_id, u) == <<project_id, "year=", u>>
generate_md5_key(s3_key) == Append(s3_key, ".md5")

\* s3_key.split("/")[-1]
filename_of(s3_key) == s3_key[Len(s3_key)]

embedding_key(image_id) == <<"embedding", image_id>>
caption_key(image_id) == <<"caption", image_id>>

\* ----------------------------------------------------- function helpers
Put(f, k, v) == [x \in DOMAIN f \cup {k} |-> IF x = k THEN v ELSE f[x]]
Drop(f, k) == [x \in DOMAIN f \ {k} |-> f[x]]

\* ------------------------------------------------------------ index store
\* GetSequenceCount(project_id): the number of records of the project.
get_sequence_count(project_id) ==
    Cardinality({i \in DOMAIN index : index[i].project_id = project_id})

\* StoreImage(record): upsert by image_id, the whole record replaced.
store_image(ix, rec) == Put(ix, rec.image_id, rec)

\* ---------------------------------------------------------------- cache
\* cache.get: the value, or None when the key is absent.
cache_get(key) == IF key \in DOMAIN cache THEN Some(cache[key]) ELSE None

cache_set_one_namespace(c, key, value) == Put(c, embedding_key(key[2]), value)

\* cache.set (setex): the key now holds the value.
cache_set(c, key, value) == Put(c, key, value)

cache_get_failed_stale == Some(<<"[", "9.9", "]">>)

\* cache.get when Redis raises: the error is logged and None returned.
cache_get_failed == None

\* cache.set when Redis raises: the error is logged, False returned, and the
\* store is as it was.
cache_set_failed(c, key, value) == c

\* The invocation with one more cache error logged.
CacheError(t) == [t EXCEPT !.cache_errors = @ + 1]

\* ------------------------------------------------- LangChainQueryService
\* The chunks the descriptions are written with: the blank, and letters in
\* lower and upper case.
Chunks == {" ", "a", "A", "b"}

\* "a red car" and "a red car parked".
RedCar == <<"a", " ", "red", " ", "car">>
RedCarParked == RedCar \o <<" ", "parked">>

\* A description of six different words: a, b, ab, ba, aa, bb.
SixWords == <<"a", " ", "b", " ", "a", "b", " ", "b", "a", " ",
              "a", "a", " ", "b", "b">>

\* The descriptions a call may be given: every text of at most MaxText chunks,
\* and the two about the car.
Texts == UNION {[1..n -> Chunks] : n \in 0..MaxText} \cup {RedCar, RedCarParked}

\* The descriptions of a call that is made twice: those in lower case.
LowerTexts == {d \in Texts : \A i \in 1..Len(d) : d[i] # "A"}

\* The pairs of descriptions of one call: any two of these, and the six words
\* against the empty description and against themselves.
Pairs == (Texts \X Texts)
             \cup {<<<<>>, SixWords>>, <<SixWords, <<>>>>, <<SixWords, SixWords>>}

\* str.lower, chunk by chunk.
lower_chunk(c) == IF c = "A" THEN "a" ELSE c
lower(text) == [i \in 1..Len(text) |-> lower_chunk(text[i])]

first_blank_none(text) == Len(text) + 1

\* The position of the first blank of a text, or one past its end.
first_blank(text) ==
    IF \E i \in 1..Len(text) : text[i] = " "
    THEN CHOOSE i \in 1..Len(text) :
             text[i] = " " /\ \A j \in 1..(i - 1) : text[j] # " "
    ELSE Len(text) + 1

\* str.split(): the maximal runs without a blank, in order; no empty string.
RECURSIVE split(_)
split(text) ==
    IF text = <<>> THEN <<>>
    ELSE IF text[1] = " " THEN split(Tail(text))
    ELSE <<SubSeq(text, 1, first_blank(text) - 1)>>
             \o split(SubSeq(text, first_blank(text), Len(text)))

\* set(...) of a list.
set_of(list) == {list[i] : i \in 1..Len(list)}

\* words_1, words_2 = set(desc.lower().split())
words(desc) == set_of(split(lower(desc)))

\* added = words_2 - words_1; removed = words_1 - words_2
added(desc_1, desc_2) == words(desc_2) \ words(desc_1)
removed(desc_1, desc_2) == words(desc_1) \ words(desc_2)

\* list(a_set): its elements in the order the set iterates, an order the
\* language does not fix (it follows the hashes of the strings, which differ
\* from one process to the next).
RECURSIVE Orders(_)
Orders(S) ==
    IF S = {} THEN {<<>>}
    ELSE UNION {{<<x>> \o o : o \in Orders(S \ {x})} : x \in S}

\* a_list[:5]
max_listed == 5
first_listed(list) == SubSeq(list, 1, IF Len(list) < max_listed THEN Len(list)
                                      ELSE max_listed)

\* ", ".join(a_list)
RECURSIVE join(_)
join(list) ==
    IF list = <<>> THEN <<>>
    ELSE IF Len(list) = 1 THEN list[1]
    ELSE list[1] \o <<", ">> \o join(Tail(list))

similar_only_when_equal(changes, desc_1, desc_2) ==
    IF desc_1 = desc_2 /\ changes = <<>>
    THEN <<[type |-> "similar",
            description |-> <<"Images appear similar with no major changes detected.">>]>>
    ELSE changes

\* if not changes: changes.append({"type": "similar", ...})
or_similar(changes, desc_1, desc_2) ==
    IF changes = <<>>
    THEN <<[type |-> "similar",
            description |-> <<"Images appear similar with no major changes detected.">>]>>
    ELSE changes

\* _detect_changes, given the orders in which list(added) and list(removed)
\* come out.
detect_changes(desc_1, desc_2, added_list, removed_list) ==
    or_similar(
        (IF added(desc_1, desc_2) # {}
         THEN <<[type |-> "addition",
                 description |-> <<"New elements detected: ">>
                                     \o join(first_listed(added_list))]>>
         ELSE <<>>)
        \o
        (IF removed(desc_1, desc_2) # {}
         THEN <<[type |-> "removal",
                 description |-> <<"Elements removed: ">>
                                     \o join(first_listed(removed_list))]>>
         ELSE <<>>),
        desc_1, desc_2)

\* "confidence": 0.85, in hundredths.
comparison_confidence == 85

\* structure_comparison_response for two strings: nothing in its try block
\* raises, so the except branch is not taken.
structure_comparison_response(image_1_desc, image_2_desc, added_list, removed_list) ==
    [changes |-> detect_changes(image_1_desc, image_2_desc, added_list, removed_list),
     summary |-> <<"Comparing images: Image 1 shows ">> \o image_1_desc
                     \o <<". Image 2 shows ">> \o image_2_desc \o <<".">>,
     image_1_description |-> image_1_desc,
     image_2_description |-> image_2_desc,
     confidence |-> comparison_confidence]

\* The except branch of structure_comparison_response.
structure_comparison_fallback ==
    [changes |-> <<>>, summary |-> <<"Error processing comparison">>,
     image_1_description |-> <<>>, image_2_description |-> <<>>,
     confidence |-> 0]

\* The request a route is serving, with the locals of its handler ({} while
\* unbound). served counts the requests answered; index_lookups, blob_fetches
\* and classifications what the handlers have done so far; computed holds the
\* (cache key, response) pairs of the comparisons POST /compare has computed
\* and answered.
NoRequest == [pc |-> "idle", route |-> "", project_id |-> "",
              sequence_1 |-> 0, sequence_2 |-> 0,
              question |-> "", sequence_number |-> {},
              comparison_sequences |-> {}, use_vector_search |-> FALSE,
              records |-> {}, response |-> {}, status |-> 0, detail |-> "",
              hit |-> FALSE, served |-> 0, index_lookups |-> 0,
              blob_fetches |-> 0, classifications |-> 0, computed |-> {}]

\* A direct call of the service, and a second call on descriptions that hold
\* the same words.
NoCall == [pc |-> "idle", image_1_desc |-> <<>>, image_2_desc |-> <<>>,
           response |-> {}, again_1_desc |-> <<>>, again_2_desc |-> <<>>,
           again |-> {}]

\* A call of send_message: attempt is the loop variable, sends the
\* sqs.send_message calls made, enqueued those that succeeded, slept the
\* durations of the asyncio.sleep calls, remaining what is left of the one
\* in progress.
NoSend == [pc |-> "idle", message |-> "", max_retries |-> 0, attempt |-> 0,
           sends |-> 0, enqueued |-> 0, slept |-> <<>>, remaining |-> 0]

\* ------------------------------------------------------------------ Init
NoUpload == [pc |-> "idle", project_id |-> "", data |-> "", sequence_number |-> 0,
             s3_key |-> <<>>, status |-> 0]

\* A local of the pipeline is {} while unbound and {v} once assigned v. The
\* fields from deliveries on count what the invocation has done so far, and
\* cache_errors the errors cache.get and cache.set have logged for the attempt
\* at work or, once an attempt has succeeded, for that attempt.
NoTask == [state |-> "NONE", retries |-> 0, countdown |-> 0, pc |-> "",
           project_id |-> "", image_id |-> 0, s3_key |-> <<>>,
           sequence_number |-> 0,
           image_data |-> {}, embedding |-> {}, caption |-> {},
           result |-> {}, error |-> "", deliveries |-> 0,
           executions |-> 0, embed_calls |-> 0, caption_calls |-> 0,
           index_writes |-> 0, failures |-> 0, cache_errors |-> 0]

\* The compare_images_task invocation, with the locals of
\* _compare_images_async ({} while unbound).
NoCompare == [state |-> "NONE", retries |-> 0, countdown |-> 0, pc |-> "",
              project_id |-> "", sequence_1 |-> 0, sequence_2 |-> 0,
              image_1 |-> {}, image_2 |-> {},
              image_1_data |-> {}, image_2_data |-> {},
              result |-> {}, error |-> "",
              executions |-> 0, compare_calls |-> 0, failures |-> 0]

Init ==
    /\ up = [u \in Uploads |-> NoUpload]
    /\ blob = <<>>
    /\ task = [u \in Slots |-> NoTask]
    /\ cache = <<>>
    /\ index = <<>>
    /\ order = <<>>
    /\ ctask = NoCompare
    /\ req = NoRequest
    /\ lc = NoCall
    /\ sqs = NoSend
    /\ faults = 0

\* ------------------------------------------------------------ upload_file
UpSet(u, r) == [up EXCEPT ![u] = r]

\* except Exception: every failure inside the handler is answered 500.
UploadFailed(u) == UpSet(u, [NoUpload EXCEPT !.pc = "failed", !.status = 500])

\* sequence_number = current_sequence + 1
next_sequence(current_sequence) == current_sequence + 1

\* Lines 18-31: the ULID, the file read, the empty-file check and the read of
\* the project's count. ULIDs are time-ordered, so requests begin in id order;
\* project names are interchangeable, so the first request names "p1".
UploadBegin(u, p, d) ==
    /\ up[u].pc = "idle"
    /\ \A v \in Uploads : v < u => up[v].pc # "idle"
    /\ u = 1 => p = "p1"
    /\ \/ /\ d = ""
          /\ up' = UploadFailed(u)
          /\ NoFault
       \/ /\ d # ""
          /\ NoFault
          /\ up' = UpSet(u, [up[u] EXCEPT !.pc = "blob", !.project_id = p, !.data = d,
                                !.sequence_number =
                                    next_sequence(get_sequence_count(p))])
       \/ /\ d # ""          \* get_sequence_count raises
          /\ Fault
          /\ up' = UploadFailed(u)
    /\ UNCHANGED <<blob, task, cache, index, order, ctask, req, lc, sqs>>

\* calculate_md5: the hex digest of the body; and str.encode(): its bytes.
calculate_md5(data) == <<"md5", data>>
encode(text) == <<"bytes", text>>

put_objects_sidecar_first(project_id, u, image_data) ==
    LET s3_key == generate_s3_key(project_id, u)
        compressed_data == compress_image(image_data)
    IN  <<[Key |-> generate_md5_key(s3_key),
           Body |-> encode(calculate_md5(compressed_data)),
           ContentType |-> "text/plain"],
          [Key |-> s3_key, Body |-> compressed_data, ContentType |-> "image/jpg"]>>

\* The put_object calls of upload_image, in the order it makes them.
put_objects(project_id, u, image_data) ==
    LET s3_key == generate_s3_key(project_id, u)
        compressed_data == compress_image(image_data)
    IN  <<[Key |-> s3_key, Body |-> compressed_data, ContentType |-> "image/jpg"],
          [Key |-> generate_md5_key(s3_key),
           Body |-> encode(calculate_md5(compressed_data)),
           ContentType |-> "text/plain"]>>

\* return {"s3_key": s3_key, "md5_key": md5_key, "md5_hash": md5_hash}
upload_image_result(project_id, u, image_data) ==
    [s3_key |-> generate_s3_key(project_id, u),
     md5_key |-> generate_md5_key(generate_s3_key(project_id, u)),
     md5_hash |-> calculate_md5(compress_image(image_data))]

UploadBlob_failure_ignored(u) ==
    /\ up[u].pc = "blob"
    /\ LET s3_key == generate_s3_key(up[u].project_id, u)
           calls == put_objects(up[u].project_id, u, up[u].data)
           one == Put(blob, calls[1].Key, calls[1].Body)
           two == Put(one, calls[2].Key, calls[2].Body)
       IN  \/ /\ blob' = two
              /\ up' = UpSet(u, [up[u] EXCEPT !.pc = "enqueue", !.s3_key = s3_key])
              /\ NoFault
           \/ /\ blob' \in {blob, one}
              /\ up' = UpSet(u, [up[u] EXCEPT !.pc = "enqueue", !.s3_key = s3_key])
              /\ Fault
    /\ UNCHANGED <<task, cache, index, order, ctask, req, lc, sqs>>

\* upload_image: the body, then the MD5 sidecar; either put_object may raise.
UploadBlob(u) ==
    /\ up[u].pc = "blob"
    /\ LET calls == put_objects(up[u].project_id, u, up[u].data)
           one == Put(blob, calls[1].Key, calls[1].Body)
           two == Put(one, calls[2].Key, calls[2].Body)
       IN  \/ /\ blob' = two
              /\ up' = UpSet(u, [up[u] EXCEPT
                                    !.pc = "enqueue",
                                    !.s3_key = upload_image_result(
                                        up[u].project_id, u, up[u].data).s3_key])
              /\ NoFault
           \/ /\ blob' \in {blob, one}
              /\ up' = UploadFailed(u)
              /\ Fault
    /\ UNCHANGED <<task, cache, index, order, ctask, req, lc, sqs>>

\* process_image_task.delay(...) and the UploadResponse.
UploadEnqueue(u) ==
    /\ up[u].pc = "enqueue"
    /\ \/ /\ task' = [task EXCEPT ![u] =
                        [NoTask EXCEPT !.state = "PENDING", !.deliveries = 1,
                                       !.project_id = up[u].project_id,
                                       !.image_id = u,
                                       !.s3_key = up[u].s3_key,
                                       !.sequence_number = up[u].sequence_number]]
          /\ up' = UpSet(u, [up[u] EXCEPT !.pc = "done", !.status = 200])
          /\ order' = Append(order, u)
          /\ NoFault
       \/ /\ up' = UploadFailed(u)      \* the broker is unreachable
          /\ UNCHANGED <<task, order>>
          /\ Fault
    /\ UNCHANGED <<blob, cache, index, ctask, req, lc, sqs>>

\* ------------------------------------------------------ process_image_task
TaskSet(u, r) == [task EXCEPT ![u] = r]

\* The locals of _process_image_async are gone once the attempt has ended.
EndAttempt(t) == [t EXCEPT !.pc = "", !.image_data = {}, !.embedding = {},
                           !.caption = {}, !.cache_errors = 0]

RECURSIVE pow2(_)
pow2(n) == IF n = 0 THEN 1 ELSE 2 * pow2(n - 1)

retry_countdown_linear(retries) == 2 * retries

\* countdown=2**self.request.retries
retry_countdown(retries) == pow2(retries)

can_retry_first_only(retries) == retries = 0

can_retry_inclusive(retries) == retries <= max_retries

\* Task.retry gives up once the retries already made reach max_retries.
can_retry(retries) == retries < max_retries

retry_reassigns_sequence(t) ==
    IF can_retry(t.retries)
    THEN [t EXCEPT !.state = "RETRY", !.retries = t.retries + 1,
                   !.countdown = retry_countdown(t.retries),
                   !.sequence_number = next_sequence(t.sequence_number)]
    ELSE [t EXCEPT !.state = "FAILURE", !.failures = t.failures + 1,
                   !.error = "exc"]

\* except Exception: raise self.retry(exc=e, countdown=...). The invocation is
\* sent again with retries + 1, or, the budget spent, exc is raised and the
\* task ends in state FAILURE.
retry(t) ==
    IF can_retry(t.retries)
    THEN [t EXCEPT !.state = "RETRY", !.retries = t.retries + 1,
                   !.countdown = retry_countdown(t.retries)]
    ELSE [t EXCEPT !.state = "FAILURE", !.failures = t.failures + 1,
                   !.error = "exc"]

\* An exception leaves _process_image_async and reaches the except clause of
\* process_image_task.
Raised(t) == EndAttempt(retry(t))

Claim_before_countdown(u) ==
    /\ task[u].state \in {"PENDING", "RETRY"}
    /\ task' = TaskSet(u, [task[u] EXCEPT !.state = "STARTED", !.pc = "fetch",
                                          !.error = "", !.executions = @ + 1,
                                          !.cache_errors = 0])
    /\ UNCHANGED <<up, blob, cache, index, order, ctask, faults, req, lc, sqs>>

\* A worker takes the message once its countdown has run out and runs the task.
Claim(u) ==
    /\ task[u].state \in {"PENDING", "RETRY"}
    /\ task[u].countdown = 0
    /\ task' = TaskSet(u, [task[u] EXCEPT !.state = "STARTED", !.pc = "fetch",
                                          !.error = "", !.executions = @ + 1,
                                          !.cache_errors = 0])
    /\ UNCHANGED <<up, blob, cache, index, order, ctask, faults, req, lc, sqs>>

\* One second passes for every message that waits for its countdown.
Waits(t) == t.state = "RETRY" /\ t.countdown > 0
Elapse_never(t) == t
Elapse(t) == IF Waits(t) THEN [t EXCEPT !.countdown = @ - 1] ELSE t

Tick ==
    /\ Waits(ctask) \/ \E u \in Slots : Waits(task[u])
    /\ task' = [u \in Slots |-> Elapse(task[u])]
    /\ ctask' = Elapse(ctask)
    /\ UNCHANGED <<up, blob, cache, index, order, faults, req, lc, sqs>>

\* s3.get_object and Body.read
FetchBlob(u) ==
    /\ task[u].state = "STARTED" /\ task[u].pc = "fetch"
    /\ \/ /\ task' = TaskSet(u, [task[u] EXCEPT !.pc = "emb_get",
                                               !.image_data = {blob[task[u].s3_key]}])
          /\ NoFault
       \/ /\ task' = TaskSet(u, Raised(task[u]))
          /\ Fault
    /\ UNCHANGED <<up, blob, cache, index, order, ctask, req, lc, sqs>>

EmbeddingLookup_hit_skips_caption(t, cached_embedding) ==
    IF Truthy(cached_embedding)
    THEN [t EXCEPT !.pc = "store",
                   !.embedding = {json_loads(ValueOf(cached_embedding))}]
    ELSE [t EXCEPT !.pc = "emb_call"]

EmbeddingLookup_hit_unparsed(t, cached_embedding) ==
    IF Truthy(cached_embedding)
    THEN [t EXCEPT !.pc = "cap_get", !.embedding = cached_embedding]
    ELSE [t EXCEPT !.pc = "emb_call"]

\* cached_embedding = cache.get(cache_key); a Redis error is answered None.
\* A hit is parsed with json.loads, whose JSONDecodeError nothing in the
\* pipeline catches; a miss goes on to the embedding service.
EmbeddingLookup(t, cached_embedding) ==
    IF Truthy(cached_embedding)
    THEN IF json_valid(ValueOf(cached_embedding))
         THEN [t EXCEPT !.pc = "cap_get",
                        !.embedding = {json_loads(ValueOf(cached_embedding))}]
         ELSE Raised(t)
    ELSE [t EXCEPT !.pc = "emb_call"]

EmbGet(u) ==
    /\ task[u].state = "STARTED" /\ task[u].pc = "emb_get"
    /\ \/ /\ task' = TaskSet(u, EmbeddingLookup(task[u], cache_get(embedding_key(task[u].image_id))))
          /\ NoFault
       \/ /\ task' = TaskSet(u, CacheError(EmbeddingLookup(task[u], cache_get_failed)))
          /\ Fault
    /\ UNCHANGED <<up, blob, cache, index, order, ctask, req, lc, sqs>>

\* The pipeline has no retry of its own: an exception of the embedding service
\* leaves _process_image_async and reaches the task's except clause.
EmbedRaised_retried_in_place(t) == t

EmbedRaised(t) == Raised(t)

\* embedding_service.generate_image_embedding, then cache.set of its JSON text
\* (a Redis error in cache.set is logged and answered False).
EmbCall(u) ==
    /\ task[u].state = "STARTED" /\ task[u].pc = "emb_call"
    /\ LET t == [task[u] EXCEPT !.embed_calls = @ + 1]
           embedding == generate_image_embedding(ValueOf(t.image_data))
           done == [t EXCEPT !.pc = "cap_get", !.embedding = {embedding}]
           key == embedding_key(t.image_id)
       IN  \/ /\ task' = TaskSet(u, done)
              /\ cache' = cache_set(cache, key, json_dumps(embedding))
              /\ NoFault
           \/ /\ task' = TaskSet(u, CacheError(done))
              /\ cache' = cache_set_failed(cache, key, json_dumps(embedding))
              /\ Fault
           \/ /\ task' = TaskSet(u, EmbedRaised(t))
              /\ UNCHANGED cache
              /\ Fault
    /\ UNCHANGED <<up, blob, index, order, ctask, req, lc, sqs>>

\* cached_caption = cache.get(caption_cache_key): a hit is used as it is.
CaptionLookup(t, cached_caption) ==
    IF Truthy(cached_caption)
    THEN [t EXCEPT !.pc = "store", !.caption = cached_caption]
    ELSE [t EXCEPT !.pc = "cap_call"]

CapGet(u) ==
    /\ task[u].state = "STARTED" /\ task[u].pc = "cap_get"
    /\ \/ /\ task' = TaskSet(u, CaptionLookup(task[u], cache_get(caption_key(task[u].image_id))))
          /\ NoFault
       \/ /\ task' = TaskSet(u, CacheError(CaptionLookup(task[u], cache_get_failed)))
          /\ Fault
    /\ UNCHANGED <<up, blob, cache, index, order, ctask, req, lc, sqs>>

\* vlm_service.generate_caption, then cache.set of the caption.
CapCall(u) ==
    /\ task[u].state = "STARTED" /\ task[u].pc = "cap_call"
    /\ LET t == [task[u] EXCEPT !.caption_calls = @ + 1]
           caption == generate_caption(ValueOf(t.image_data))
           done == [t EXCEPT !.pc = "store", !.caption = {caption}]
           key == caption_key(t.image_id)
       IN  \/ /\ task' = TaskSet(u, done)
              /\ cache' = cache_set(cache, key, caption)
              /\ NoFault
           \/ /\ task' = TaskSet(u, CacheError(done))
              /\ cache' = cache_set_failed(cache, key, caption)
              /\ Fault
           \/ /\ task' = TaskSet(u, Raised(t))
              /\ UNCHANGED cache
              /\ Fault
    /\ UNCHANGED <<up, blob, index, order, ctask, req, lc, sqs>>

\* len(image_data) of the fetched body.
Size(image_data) == {size_bytes(b) : b \in image_data}

\* The record handed to opensearch.store_image; a field is {v} when it holds v.
ImageRecord(u, t) ==
    [project_id |-> t.project_id, image_id |-> t.image_id, s3_key |-> t.s3_key,
     filename |-> filename_of(t.s3_key), embedding |-> t.embedding,
     sequence_number |-> t.sequence_number, text_description |-> t.caption,
     metadata |-> [size_bytes |-> Size(t.image_data)]]

\* The dict returned by _process_image_async.
PipelineResult(u, t) ==
    [status |-> "success", project_id |-> t.project_id, image_id |-> t.image_id,
     caption |-> t.caption, embedding_dimension |-> {Len(e) : e \in t.embedding},
     sequence_number |-> t.sequence_number]

\* await opensearch.store_image(...), then the return of the result.
Store(u) ==
    /\ task[u].state = "STARTED" /\ task[u].pc = "store"
    /\ \/ /\ index' = store_image(index, ImageRecord(u, task[u]))
          /\ task' = TaskSet(u, [EndAttempt(task[u]) EXCEPT
                                    !.state = "SUCCESS",
                                    !.index_writes = @ + 1,
                                    !.cache_errors = task[u].cache_errors,
                                    !.result = {PipelineResult(u, task[u])}])
          /\ NoFault
       \/ /\ task' = TaskSet(u, Raised(task[u]))
          /\ UNCHANGED index
          /\ Fault
    /\ UNCHANGED <<up, blob, cache, order, ctask, req, lc, sqs>>

\* task_time_limit=600: the runtime kills an attempt that runs too long; the
\* except clause does not run and the task ends in state FAILURE.
HardTimeLimit(u) ==
    /\ task[u].state = "STARTED"
    /\ task' = TaskSet(u, [EndAttempt(task[u]) EXCEPT !.state = "FAILURE",
                                                      !.failures = @ + 1,
                                                      !.error = "TimeLimitExceeded"])
    /\ Fault
    /\ UNCHANGED <<up, blob, cache, index, order, ctask, req, lc, sqs>>

\* At-least-once delivery: the queue hands the message of an invocation that
\* has ended to a worker once more, with the arguments and the retries it
\* carried.
Redeliver(u) ==
    /\ task[u].state \in {"SUCCESS", "FAILURE"}
    /\ task[u].deliveries < MaxDeliveries
    /\ task' = TaskSet(u, [task[u] EXCEPT !.state = "PENDING", !.countdown = 0,
                                          !.deliveries = @ + 1])
    /\ NoFault
    /\ UNCHANGED <<up, blob, cache, index, order, ctask, req, lc, sqs>>

\* At-least-once delivery while the first delivery is still at work: the queue
\* hands a second worker a copy of the message of invocation u, with the
\* arguments and the retries it carries.
DeliverAgain(u) ==
    /\ task[Stale].state = "NONE"
    /\ task[u].state \in {"STARTED", "RETRY"}
    /\ task[u].deliveries < MaxDeliveries
    /\ task' = [task EXCEPT
                  ![u] = [task[u] EXCEPT !.deliveries = @ + 1],
                  ![Stale] = [NoTask EXCEPT !.state = "PENDING",
                                            !.deliveries = task[u].deliveries + 1,
                                            !.retries = task[u].retries,
                                            !.project_id = task[u].project_id,
                                            !.image_id = task[u].image_id,
                                            !.s3_key = task[u].s3_key,
                                            !.sequence_number = task[u].sequence_number]]
    /\ NoFault
    /\ UNCHANGED <<up, blob, cache, index, order, ctask, req, lc, sqs>>

\* setex: an entry is gone once its ttl (settings.cache_ttl) has run out.
CacheExpire(k) ==
    /\ k \in DOMAIN cache
    /\ cache' = Drop(cache, k)
    /\ Fault
    /\ UNCHANGED <<up, blob, task, index, order, ctask, req, lc, sqs>>

\* Texts under an embedding key that are no serialized vector: a list cut
\* short, and a text in another format.
Malformed == {<<"[", "0.1", ",">>, <<"v2", "0.1", "0.2">>}

\* The cache is shared: another writer leaves, under the embedding key of an
\* image, a text that is not the JSON of a vector.
CacheForeignWrite(image_id, text) ==
    /\ cache' = cache_set(cache, embedding_key(image_id), text)
    /\ Fault
    /\ UNCHANGED <<up, blob, task, index, order, ctask, req, lc, sqs>>

\* ----------------------------------------------------- compare_images_task
\* The sequence numbers a client may name.
SequenceArgs == {1, 2}

\* GetBySequence(project_id, seq): the records of the project with that
\* sequence number; the lookup answers one of them, or None when there is none.
get_by_sequence(project_id, seq) ==
    {rec \in {index[i] : i \in DOMAIN index} :
        rec.project_id = project_id /\ rec.sequence_number = seq}

\* Compare(bytesA, bytesB) -> {descA, descB, summary}, deterministic.
compare_images(a, b) ==
    [image_1_description |-> <<"image", a[2]>>,
     image_2_description |-> <<"image", b[2]>>,
     summary |-> <<a[2], "then", b[2]>>]

EndCompare(t) == [t EXCEPT !.pc = "", !.image_1 = {}, !.image_2 = {},
                           !.image_1_data = {}, !.image_2_data = {}]

\* An exception leaves _compare_images_async and reaches the except clause of
\* compare_images_task.
CompareRaised(t) == EndCompare(retry(t))

\* A client sends compare_images_task.delay(project_id, sequence_1, sequence_2).
CompareEnqueue(p, s1, s2) ==
    /\ ctask.state = "NONE"
    /\ ctask' = [NoCompare EXCEPT !.state = "PENDING", !.project_id = p,
                                  !.sequence_1 = s1, !.sequence_2 = s2]
    /\ UNCHANGED <<up, blob, task, cache, index, order, faults, req, lc, sqs>>

CompareClaim ==
    /\ ctask.state \in {"PENDING", "RETRY"}
    /\ ctask.countdown = 0
    /\ ctask' = [ctask EXCEPT !.state = "STARTED", !.pc = "lookup", !.error = "",
                              !.executions = @ + 1]
    /\ UNCHANGED <<up, blob, task, cache, index, order, faults, req, lc, sqs>>

\* Both get_by_sequence lookups; "if not image_1 or not image_2" returns the
\* error dict, which ends the task as a success.
CompareLookup ==
    /\ ctask.state = "STARTED" /\ ctask.pc = "lookup"
    /\ LET found_1 == get_by_sequence(ctask.project_id, ctask.sequence_1)
           found_2 == get_by_sequence(ctask.project_id, ctask.sequence_2)
       IN  \/ /\ found_1 = {} \/ found_2 = {}
              /\ ctask' = [EndCompare(ctask) EXCEPT
                             !.state = "SUCCESS",
                             !.result = {[status |-> "error",
                                          message |-> "Images not found"]}]
              /\ NoFault
           \/ /\ \E image_1 \in found_1, image_2 \in found_2 :
                    ctask' = [ctask EXCEPT !.pc = "fetch_1", !.image_1 = {image_1},
                                          !.image_2 = {image_2}]
              /\ NoFault
           \/ /\ ctask' = CompareRaised(ctask)
              /\ Fault
    /\ UNCHANGED <<up, blob, task, cache, index, order, req, lc, sqs>>

\* s3.get_object of image_1["s3_key"]
CompareFetch1 ==
    /\ ctask.state = "STARTED" /\ ctask.pc = "fetch_1"
    /\ \/ /\ ctask' = [ctask EXCEPT
                          !.pc = "fetch_2",
                          !.image_1_data = {blob[rec.s3_key] : rec \in ctask.image_1}]
          /\ NoFault
       \/ /\ ctask' = CompareRaised(ctask)
          /\ Fault
    /\ UNCHANGED <<up, blob, task, cache, index, order, req, lc, sqs>>

\* s3.get_object of image_2["s3_key"]
CompareFetch2 ==
    /\ ctask.state = "STARTED" /\ ctask.pc = "fetch_2"
    /\ \/ /\ ctask' = [ctask EXCEPT
                          !.pc = "compare",
                          !.image_2_data = {blob[rec.s3_key] : rec \in ctask.image_2}]
          /\ NoFault
       \/ /\ ctask' = CompareRaised(ctask)
          /\ Fault
    /\ UNCHANGED <<up, blob, task, cache, index, order, req, lc, sqs>>

\* The dict returned by _compare_images_async.
CompareResult(t, comparison) ==
    [status |-> "success", project_id |-> t.project_id,
     image_1 |-> [sequence |-> t.sequence_1,
                  description |-> comparison.image_1_description],
     image_2 |-> [sequence |-> t.sequence_2,
                  description |-> comparison.image_2_description],
     comparison_summary |-> comparison.summary]

\* vlm_service.compare_images and the return of the result.
CompareCall ==
    /\ ctask.state = "STARTED" /\ ctask.pc = "compare"
    /\ LET t == [ctask EXCEPT !.compare_calls = @ + 1]
           comparison == compare_images(ValueOf(t.image_1_data),
                                        ValueOf(t.image_2_data))
       IN  \/ /\ ctask' = [EndCompare(t) EXCEPT
                             !.state = "SUCCESS",
                             !.result = {CompareResult(t, comparison)}]
              /\ NoFault
           \/ /\ ctask' = CompareRaised(t)
              /\ Fault
    /\ UNCHANGED <<up, blob, task, cache, index, order, req, lc, sqs>>

\* task_time_limit=600 for an attempt of compare_images_task.
CompareHardTimeLimit ==
    /\ ctask.state = "STARTED"
    /\ ctask' = [EndCompare(ctask) EXCEPT !.state = "FAILURE", !.failures = @ + 1,
                                          !.error = "TimeLimitExceeded"]
    /\ Fault
    /\ UNCHANGED <<up, blob, task, cache, index, order, req, lc, sqs>>

CompareStep ==
    \/ \E p \in Projects, s1 \in SequenceArgs, s2 \in SequenceArgs :
           CompareEnqueue(p, s1, s2)
    \/ CompareClaim
    \/ CompareLookup
    \/ CompareFetch1
    \/ CompareFetch2
    \/ CompareCall
    \/ CompareHardTimeLimit

\* ------------------------------------------ a project of enriched images
\* The state in which the files f[1] and f[2] have been uploaded to project
\* "p1", one after the other, and enriched, nothing having failed.
UploadedKey(u) == generate_s3_key("p1", u)
UploadedTask(f, u) ==
    [NoTask EXCEPT !.project_id = "p1", !.image_id = u, !.s3_key = UploadedKey(u),
                   !.sequence_number = u, !.deliveries = 1,
                   !.image_data = {compress_image(f[u])},
                   !.embedding = {generate_image_embedding(compress_image(f[u]))},
                   !.caption = {generate_caption(compress_image(f[u]))}]

Enriched(f) ==
    /\ up = [u \in Uploads |->
                IF u \in DOMAIN f
                THEN [NoUpload EXCEPT !.pc = "done", !.project_id = "p1",
                                      !.data = f[u], !.sequence_number = u,
                                      !.s3_key = UploadedKey(u), !.status = 200]
                ELSE NoUpload]
    /\ blob = [k \in {UploadedKey(u) : u \in DOMAIN f}
                      \cup {generate_md5_key(UploadedKey(u)) : u \in DOMAIN f} |->
                  IF k \in {UploadedKey(u) : u \in DOMAIN f}
                  THEN compress_image(f[k[3]])
                  ELSE encode(calculate_md5(compress_image(f[k[3]])))]
    /\ task = [s \in Slots |->
                  IF s \in DOMAIN f
                  THEN [NoTask EXCEPT
                          !.state = "SUCCESS", !.project_id = "p1", !.image_id = s,
                          !.s3_key = UploadedKey(s), !.sequence_number = s,
                          !.deliveries = 1, !.executions = 1, !.embed_calls = 1,
                          !.caption_calls = 1, !.index_writes = 1,
                          !.result = {PipelineResult(s, UploadedTask(f, s))}]
                  ELSE NoTask]
    /\ cache = [k \in {embedding_key(u) : u \in DOMAIN f}
                       \cup {caption_key(u) : u \in DOMAIN f} |->
                   IF k[1] = "embedding"
                   THEN json_dumps(generate_image_embedding(compress_image(f[k[2]])))
                   ELSE generate_caption(compress_image(f[k[2]]))]
    /\ index = [u \in DOMAIN f |-> ImageRecord(u, UploadedTask(f, u))]
    /\ order = [u \in DOMAIN f |-> u]
    /\ ctask = NoCompare
    /\ req = NoRequest
    /\ lc = NoCall
    /\ sqs = NoSend
    /\ faults = 0

\* The files of two enriched uploads.
TwoFiles == [{1, 2} -> Files \ {""}]

InitEnriched == \E f \in TwoFiles : Enriched(f)

\* The index is a shared store: a record of project "p2" whose enrichment is
\* not complete (no embedding, no text_description) is written to it.
Unenriched ==
    [project_id |-> "p2", image_id |-> Stale, s3_key |-> generate_s3_key("p2", Stale),
     filename |-> filename_of(generate_s3_key("p2", Stale)), embedding |-> None,
     sequence_number |-> 1, text_description |-> None,
     metadata |-> [size_bytes |-> {}]]

IndexForeignWrite ==
    /\ Stale \notin DOMAIN index
    /\ req.pc = "idle"
    /\ index' = store_image(index, Unenriched)
    /\ UNCHANGED <<up, blob, task, cache, order, ctask, req, lc, faults, sqs>>

\* --------------------------------------------------------- POST /compare
comparison_key_without_sequence_2(project_id, sequence_1, sequence_2) ==
    <<"comparison", project_id, sequence_1, 0>>

\* cache_key = f"comparison:{project_id}:{sequence_1}:{sequence_2}"
comparison_key(project_id, sequence_1, sequence_2) ==
    <<"comparison", project_id, sequence_1, sequence_2>>

\* response.model_dump_json(): the JSON text of the response; and
\* ComparisonResponse(**json.loads(cached)): the response the text spells.
model_dump_json(response) == <<"json", response>>
model_validate_json(text) == text[2]

\* ImageInfo(...) of a record; description is its text_description, or "".
ImageInfo(rec) ==
    [image_id |-> rec.image_id, sequence_number |-> rec.sequence_number,
     s3_key |-> rec.s3_key, filename |-> rec.filename,
     description |-> ValueOf(rec.text_description)]

\* ComparisonResponse(image_1=..., image_2=..., changes=..., summary=...,
\* confidence=structured_comparison.get("confidence", 0.85))
ComparisonResponse(image_1, image_2, structured_comparison) ==
    [image_1 |-> ImageInfo(image_1), image_2 |-> ImageInfo(image_2),
     changes |-> structured_comparison.changes,
     summary |-> structured_comparison.summary,
     confidence |-> structured_comparison.confidence]

\* A route takes a request up: the payload and the locals are those of the
\* new request, what the handlers have done so far stays.
Arrived(r, route, project_id) ==
    [NoRequest EXCEPT !.route = route, !.project_id = project_id,
                      !.served = r.served, !.index_lookups = r.index_lookups,
                      !.blob_fetches = r.blob_fetches,
                      !.classifications = r.classifications,
                      !.computed = r.computed]

\* The handler returns or raises HTTPException: the request is answered.
Answered(r, status, detail, response) ==
    [r EXCEPT !.pc = "idle", !.records = {},
              !.status = status, !.detail = detail, !.response = response,
              !.served = @ + 1]

\* Lines 194-201: the cache read; a hit is answered from the cached text. A
\* read that fails finds nothing.
CompareRequest(project_id, sequence_1, sequence_2) ==
    /\ req.pc = "idle" /\ req.served < MaxRequests
    /\ LET r == [Arrived(req, "compare", project_id) EXCEPT
                    !.sequence_1 = sequence_1, !.sequence_2 = sequence_2]
           key == comparison_key(project_id, sequence_1, sequence_2)
           lookup(cached) ==
               IF Truthy(cached)
               THEN Answered([r EXCEPT !.hit = TRUE], 200, "",
                             {model_validate_json(ValueOf(cached))})
               ELSE [r EXCEPT !.pc = "compare_images"]
       IN  \/ req' = lookup(cache_get(key)) /\ NoFault
           \/ req' = lookup(cache_get_failed) /\ Fault
    /\ UNCHANGED <<up, blob, task, cache, index, order, ctask, lc, sqs>>

\* opensearch.compare_images(project_id, sequence_1, sequence_2): both records,
\* or nothing when either is missing.
compare_images_lookup(project_id, sequence_1, sequence_2) ==
    {[image_1 |-> image_1, image_2 |-> image_2] :
        <<image_1, image_2>> \in get_by_sequence(project_id, sequence_1)
                                  \X get_by_sequence(project_id, sequence_2)}

\* A record of the pair has no text_description (None).
Undescribed(comparison_data) ==
    \/ comparison_data.image_1.text_description = None
    \/ comparison_data.image_2.text_description = None

CompareResolve_caches_fallback ==
    /\ req.pc = "compare_images" /\ req.route = "compare"
    /\ LET r == [req EXCEPT !.index_lookups = @ + 1]
           found == compare_images_lookup(r.project_id, r.sequence_1, r.sequence_2)
       IN  \/ /\ found = {}
              /\ req' = Answered(r, 404, "Images not found", {})
              /\ NoFault
           \/ /\ \E comparison_data \in found :
                  IF Undescribed(comparison_data)
                  THEN req' = [r EXCEPT
                                 !.pc = "cache_set",
                                 !.classifications = @ + 1,
                                 !.response = {ComparisonResponse(
                                     [comparison_data.image_1 EXCEPT
                                          !.text_description = Some(<<>>)],
                                     [comparison_data.image_2 EXCEPT
                                          !.text_description = Some(<<>>)],
                                     structure_comparison_fallback)}]
                  ELSE
                  LET image_1_desc == ValueOf(comparison_data.image_1.text_description)
                      image_2_desc == ValueOf(comparison_data.image_2.text_description)
                  IN  \E added_list \in Orders(added(image_1_desc, image_2_desc)),
                         removed_list \in Orders(removed(image_1_desc, image_2_desc)) :
                          req' = [r EXCEPT
                                    !.pc = "cache_set",
                                    !.classifications = @ + 1,
                                    !.response = {ComparisonResponse(
                                        comparison_data.image_1, comparison_data.image_2,
                                        structure_comparison_response(
                                            image_1_desc, image_2_desc,
                                            added_list, removed_list))}]
              /\ NoFault
           \/ /\ req' = Answered(r, 500, "Comparison failed", {})
              /\ Fault
    /\ UNCHANGED <<up, blob, task, cache, index, order, ctask, lc, sqs>>

\* Lines 206-242: the index lookup, 404 when it finds nothing, else the
\* structured comparison and the response. A description that is None makes
\* _detect_changes raise, structure_comparison_response return its fallback,
\* and ImageInfo(description=None) raise in turn, which is answered 500 as is
\* an exception of the lookup.
CompareResolve ==
    /\ req.pc = "compare_images" /\ req.route = "compare"
    /\ LET r == [req EXCEPT !.index_lookups = @ + 1]
           found == compare_images_lookup(r.project_id, r.sequence_1, r.sequence_2)
       IN  \/ /\ found = {}
              /\ req' = Answered(r, 404, "Images not found", {})
              /\ NoFault
           \/ /\ \E comparison_data \in found :
                  IF Undescribed(comparison_data)
                  THEN req' = Answered([r EXCEPT !.classifications = @ + 1],
                                       500, "Comparison failed", {})
                  ELSE
                  LET image_1_desc == ValueOf(comparison_data.image_1.text_description)
                      image_2_desc == ValueOf(comparison_data.image_2.text_description)
                  IN  \E added_list \in Orders(added(image_1_desc, image_2_desc)),
                         removed_list \in Orders(removed(image_1_desc, image_2_desc)) :
                          req' = [r EXCEPT
                                    !.pc = "cache_set",
                                    !.classifications = @ + 1,
                                    !.response = {ComparisonResponse(
                                        comparison_data.image_1, comparison_data.image_2,
                                        structure_comparison_response(
                                            image_1_desc, image_2_desc,
                                            added_list, removed_list))}]
              /\ NoFault
           \/ /\ req' = Answered(r, 500, "Comparison failed", {})
              /\ Fault
    /\ UNCHANGED <<up, blob, task, cache, index, order, ctask, lc, sqs>>

\* Lines 244-248: cache.set of the response's JSON text (best effort), and
\* the response.
CompareCache ==
    /\ req.pc = "cache_set" /\ req.route = "compare"
    /\ LET key == comparison_key(req.project_id, req.sequence_1, req.sequence_2)
           text == model_dump_json(ValueOf(req.response))
           done == Answered([req EXCEPT !.computed =
                                 @ \cup {<<key, ValueOf(req.response)>>}],
                            200, "", req.response)
       IN  \/ /\ cache' = cache_set(cache, key, text)
              /\ req' = done
              /\ NoFault
           \/ /\ cache' = cache_set_failed(cache, key, text)
              /\ req' = done
              /\ Fault
    /\ UNCHANGED <<up, blob, task, index, order, ctask, lc, sqs>>

\* ----------------------------------------------------------- POST /query
\* The questions asked, and whether question.lower() contains "compare", and
\* "latest" or "recent".
Questions == {"what changed", "latest image"}
asks_compare(question) == FALSE
asks_latest(question) == question = "latest image"

\* The payloads: sequence_number and comparison_sequences are {} when None,
\* and a list may be too short to name two sequence numbers.
Payloads ==
    [project_id : Projects, question : Questions,
     sequence_number : {None} \cup {{n} : n \in SequenceArgs},
     comparison_sequences :
         {None, {<<1>>}} \cup {{<<a, b>>} : a \in SequenceArgs, b \in SequenceArgs},
     use_vector_search : BOOLEAN]

\* cache_key = f"query:{payload.project_id}:{hash(payload.question)}"
hash(question) == <<"hash", question>>
query_key(payload) == <<"query", payload.project_id, hash(payload.question)>>

\* image_descriptions[:5]
max_relevant == 5
first_relevant(list) == SubSeq(list, 1, IF Len(list) < max_relevant THEN Len(list)
                                        ELSE max_relevant)

\* GetByProject(project_id, limit): the records of the project, ordered by
\* sequence number (records of one sequence number in either order).
get_images_by_project(project_id) ==
    {list \in Orders({rec \in {index[i] : i \in DOMAIN index} :
                         rec.project_id = project_id}) :
        \A i \in 1..Len(list), j \in 1..Len(list) :
            i < j => list[i].sequence_number <= list[j].sequence_number}

\* SearchSimilar(project_id, vector, k): the records of the project nearest
\* to the vector, nearest first; which is nearest the model leaves open.
search_similar_images(project_id) ==
    Orders({rec \in {index[i] : i \in DOMAIN index} : rec.project_id = project_id})

\* Answer(bytes, question) -> text, deterministic.
answer_question(image_data, question) == <<"answer", image_data[2], question>>

\* _generate_summary
generate_summary(question, descriptions) ==
    IF descriptions = <<>> THEN <<"No images found for this project.">>
    ELSE IF asks_compare(question) /\ Len(descriptions) >= 2
         THEN <<"Comparison of", Len(descriptions)>>
    ELSE IF asks_latest(question)
         THEN <<"Latest image shows:",
                ValueOf(descriptions[Len(descriptions)].text_description)>>
    ELSE <<"Analysis of", Len(descriptions)>>

\* _calculate_confidence, in hundredths: the share of the descriptions that
\* are non-empty, times 0.9, at most 0.95.
confidence_weight == 90
confidence_cap == 95
calculate_confidence(descriptions) ==
    IF descriptions = <<>> THEN 0
    ELSE LET has_descriptions ==
                 Cardinality({i \in 1..Len(descriptions) :
                                 Truthy(descriptions[i].text_description)})
             confidence == (has_descriptions * confidence_weight)
                               \div Len(descriptions)
         IN  IF confidence < confidence_cap THEN confidence ELSE confidence_cap

\* structure_query_response
structure_query_response(question, image_descriptions) ==
    [summary |-> generate_summary(question, image_descriptions),
     details |-> <<"Based on", Len(image_descriptions), "image(s) in the project.">>,
     relevant_images |-> [i \in 1..Len(image_descriptions) |->
                             image_descriptions[i].image_id],
     confidence |-> calculate_confidence(image_descriptions)]

\* QueryResponse(...); the fields a branch does not pass have their defaults.
QueryResponse(summary, details, changes, relevant_images, confidence, metadata) ==
    [summary |-> summary, details |-> details, changes |-> changes,
     relevant_images |-> relevant_images, confidence |-> confidence,
     metadata |-> metadata]

\* confidence=0.85 of the answer about one image
answer_confidence == 85

\* Lines 29-36: the cache read; a hit is answered from the cached text, whatever
\* else the payload asks for. Otherwise the payload picks the branch.
QueryRequest(payload) ==
    /\ req.pc = "idle" /\ req.served < MaxRequests
    /\ LET r == [Arrived(req, "query", payload.project_id) EXCEPT
                    !.question = payload.question,
                    !.sequence_number = payload.sequence_number,
                    !.comparison_sequences = payload.comparison_sequences,
                    !.use_vector_search = payload.use_vector_search]
           branch ==
               IF payload.comparison_sequences # None
                  /\ Len(ValueOf(payload.comparison_sequences)) >= 2
               THEN "comparison_query"
               ELSE IF payload.sequence_number # None THEN "sequence_query"
               ELSE "general_query"
           lookup(cached) ==
               IF Truthy(cached)
               THEN Answered([r EXCEPT !.hit = TRUE], 200, "",
                             {model_validate_json(ValueOf(cached))})
               ELSE [r EXCEPT !.pc = branch]
       IN  \/ req' = lookup(cache_get(query_key(payload))) /\ NoFault
           \/ req' = lookup(cache_get_failed) /\ Fault
    /\ UNCHANGED <<up, blob, task, cache, index, order, ctask, lc, sqs>>

\* _handle_comparison_query: the index lookup, 404 when it finds nothing, else
\* the structured comparison as a QueryResponse, which is not cached.
QueryCompare ==
    /\ req.pc = "comparison_query"
    /\ LET r == [req EXCEPT !.index_lookups = @ + 1]
           sequence_1 == ValueOf(req.comparison_sequences)[1]
           sequence_2 == ValueOf(req.comparison_sequences)[2]
           found == compare_images_lookup(r.project_id, sequence_1, sequence_2)
       IN  \/ /\ found = {}
              /\ req' = Answered(r, 404, "Images not found for comparison", {})
              /\ NoFault
           \/ /\ \E comparison_data \in found :
                  LET image_1_desc == ValueOf(comparison_data.image_1.text_description)
                      image_2_desc == ValueOf(comparison_data.image_2.text_description)
                  IN  \E added_list \in Orders(added(image_1_desc, image_2_desc)),
                         removed_list \in Orders(removed(image_1_desc, image_2_desc)) :
                          LET structured_comparison ==
                                  structure_comparison_response(
                                      image_1_desc, image_2_desc,
                                      added_list, removed_list)
                          IN  req' = Answered(
                                  [r EXCEPT !.classifications = @ + 1], 200, "",
                                  {QueryResponse(
                                      structured_comparison.summary,
                                      <<"Comparison between sequences",
                                        sequence_1, sequence_2>>,
                                      structured_comparison.changes,
                                      <<ImageInfo(comparison_data.image_1),
                                        ImageInfo(comparison_data.image_2)>>,
                                      structured_comparison.confidence,
                                      <<>>)})
              /\ NoFault
           \/ /\ req' = Answered(r, 500, "Query failed", {})
              /\ Fault
    /\ UNCHANGED <<up, blob, task, cache, index, order, ctask, lc, sqs>>

\* Lines 56-60: the images of the project and the first with the sequence
\* number asked for; 404 when there is none.
QuerySequence ==
    /\ req.pc = "sequence_query"
    /\ LET r == [req EXCEPT !.index_lookups = @ + 1]
       IN  \/ /\ \E images \in get_images_by_project(r.project_id) :
                  LET at == {i \in 1..Len(images) :
                                {images[i].sequence_number} = r.sequence_number}
                  IN  IF at = {}
                      THEN req' = Answered(r, 404, "Image not found", {})
                      ELSE req' = [r EXCEPT
                                     !.pc = "answer_question",
                                     !.records =
                                         {images[CHOOSE i \in at :
                                                    \A j \in at : i <= j]}]
              /\ NoFault
           \/ /\ req' = Answered(r, 500, "Query failed", {})
              /\ Fault
    /\ UNCHANGED <<up, blob, task, cache, index, order, ctask, lc, sqs>>

\* Lines 63-83: s3.get_object of the image, vlm_service.answer_question and
\* the response, which is not cached. Either call may raise.
QueryAnswer ==
    /\ req.pc = "answer_question"
    /\ LET r == [req EXCEPT !.blob_fetches = @ + 1]
           target_image == ValueOf(req.records)
       IN  \/ /\ target_image.s3_key \in DOMAIN blob
              /\ req' = Answered(r, 200, "",
                     {QueryResponse(
                         answer_question(blob[target_image.s3_key], r.question),
                         <<"Answer for image at sequence",
                           ValueOf(r.sequence_number)>>,
                         <<>>, <<ImageInfo(target_image)>>,
                         answer_confidence, <<>>)})
              /\ NoFault
           \/ /\ target_image.s3_key \notin DOMAIN blob
              /\ req' = Answered(r, 500, "Query failed", {})
              /\ NoFault
           \/ /\ req' = Answered(r, 500, "Query failed", {})
              /\ Fault
    /\ UNCHANGED <<up, blob, task, cache, index, order, ctask, lc, sqs>>

\* Lines 86-124: the images of the general query (the nearest to the question's
\* embedding, or those of the project), the structured response and the
\* QueryResponse. A call that raises is answered 500.
QueryGeneral ==
    /\ req.pc = "general_query"
    /\ LET r == [req EXCEPT !.index_lookups = @ + 1]
           found == IF r.use_vector_search
                    THEN search_similar_images(r.project_id)
                    ELSE get_images_by_project(r.project_id)
       IN  \/ /\ \E image_descriptions \in found :
                  LET structured_response ==
                          structure_query_response(r.question, image_descriptions)
                      shown == first_relevant(image_descriptions)
                  IN  req' = [r EXCEPT
                                !.pc = "cache_set",
                                !.response =
                                    {QueryResponse(
                                        structured_response.summary,
                                        structured_response.details,
                                        <<>>,
                                        [i \in 1..Len(shown) |-> ImageInfo(shown[i])],
                                        structured_response.confidence,
                                        [images_searched |-> Len(image_descriptions)])}]
              /\ NoFault
           \/ /\ req' = Answered(r, 500, "Query failed", {})
              /\ Fault
    /\ UNCHANGED <<up, blob, task, cache, index, order, ctask, lc, sqs>>

\* Lines 126-130: cache.set of the response's JSON text (best effort), and
\* the response.
QueryCache ==
    /\ req.pc = "cache_set" /\ req.route = "query"
    /\ LET key == query_key(req)
           text == model_dump_json(ValueOf(req.response))
           done == Answered(req, 200, "", req.response)
       IN  \/ /\ cache' = cache_set(cache, key, text)
              /\ req' = done
              /\ NoFault
           \/ /\ cache' = cache_set_failed(cache, key, text)
              /\ req' = done
              /\ Fault
    /\ UNCHANGED <<up, blob, task, index, order, ctask, lc, sqs>>

\* ---------------------------------------------------------- send_message
Messages == {"m1", "m2"}

\* async def send_message(message, max_retries: int = 3)
default_send_retries == 3

sleeps_after_every_attempt(attempt, limit) == TRUE

\* if attempt < max_retries - 1
sleeps_before_next(attempt, limit) == attempt < limit - 1

\* send_message(message, max_retries): "for attempt in range(max_retries)"
\* starts with attempt 0, or falls through to the raise when the range is
\* empty.
SendMessage(message, retries) ==
    /\ sqs.pc = "idle"
    /\ sqs' = [NoSend EXCEPT !.pc = IF retries > 0 THEN "sending" ELSE "raised",
                             !.message = message, !.max_retries = retries]
    /\ UNCHANGED <<up, blob, task, cache, index, order, ctask, req, lc, faults>>

\* Lines 15-32: one sqs.send_message call. It returns, and so does
\* send_message; or it raises, and the loop sleeps 2 ** attempt seconds when
\* another attempt follows, or ends, and send_message raises.
SendAttempt ==
    /\ sqs.pc = "sending"
    /\ LET s == [sqs EXCEPT !.sends = @ + 1]
       IN  \/ sqs' = [s EXCEPT !.pc = "returned", !.enqueued = @ + 1]
           \/ sqs' = IF sleeps_before_next(s.attempt, s.max_retries)
                     THEN [s EXCEPT !.pc = "sleeping",
                                    !.remaining = pow2(s.attempt),
                                    !.slept = Append(@, pow2(s.attempt))]
                     ELSE IF s.attempt + 1 < s.max_retries
                          THEN [s EXCEPT !.attempt = @ + 1]
                          ELSE [s EXCEPT !.pc = "raised"]
    /\ UNCHANGED <<up, blob, task, cache, index, order, ctask, req, lc, faults>>

\* A second of asyncio.sleep passes; at its end the loop goes on with the
\* next attempt, or is over.
SendSleep ==
    /\ sqs.pc = "sleeping"
    /\ sqs' = IF sqs.remaining > 1
              THEN [sqs EXCEPT !.remaining = @ - 1]
              ELSE IF sqs.attempt + 1 < sqs.max_retries
                   THEN [sqs EXCEPT !.remaining = 0, !.pc = "sending",
                                    !.attempt = @ + 1]
                   ELSE [sqs EXCEPT !.remaining = 0, !.pc = "raised"]
    /\ UNCHANGED <<up, blob, task, cache, index, order, ctask, req, lc, faults>>

\* ------------------------------------- calls of the comparison service
Call(image_1_desc, image_2_desc) ==
    /\ lc.pc = "idle"
    /\ \E added_list \in Orders(added(image_1_desc, image_2_desc)),
          removed_list \in Orders(removed(image_1_desc, image_2_desc)) :
           lc' = [lc EXCEPT !.pc = "called",
                            !.image_1_desc = image_1_desc,
                            !.image_2_desc = image_2_desc,
                            !.response = {structure_comparison_response(
                                image_1_desc, image_2_desc, added_list, removed_list)}]
    /\ UNCHANGED <<up, blob, task, cache, index, order, ctask, req, faults, sqs>>

\* The descriptions that hold the words of desc, in any order and number.
SameWords(desc) == {d \in LowerTexts : words(d) = words(desc)}

CallAgain(image_1_desc, image_2_desc) ==
    /\ lc.pc = "called"
    /\ \E added_list \in Orders(added(image_1_desc, image_2_desc)),
          removed_list \in Orders(removed(image_1_desc, image_2_desc)) :
           lc' = [lc EXCEPT !.pc = "again",
                            !.again_1_desc = image_1_desc,
                            !.again_2_desc = image_2_desc,
                            !.again = {structure_comparison_response(
                                image_1_desc, image_2_desc, added_list, removed_list)}]
    /\ UNCHANGED <<up, blob, task, cache, index, order, ctask, req, faults, sqs>>

\* ------------------------------------------------------------------ Spec
\* The steps of upload u and of its invocation after the request has begun.
Step(u) ==
    \/ UploadBlob(u)
    \/ UploadEnqueue(u)
    \/ Claim(u)
    \/ FetchBlob(u)
    \/ EmbGet(u)
    \/ EmbCall(u)
    \/ CapGet(u)
    \/ CapCall(u)
    \/ Store(u)
    \/ HardTimeLimit(u)

\* The steps of one delivery of a process_image message.
Attempt(s) ==
    \/ Claim(s)
    \/ FetchBlob(s)
    \/ EmbGet(s)
    \/ EmbCall(s)
    \/ CapGet(s)
    \/ CapCall(s)
    \/ Store(s)
    \/ HardTimeLimit(s)

Expire == \E k \in DOMAIN cache : CacheExpire(k)

\* The service as configured: every message is delivered once.
Next ==
    \/ \E u \in Uploads, p \in Projects, d \in Files : UploadBegin(u, p, d)
    \/ \E u \in Uploads : Step(u)
    \/ Tick
    \/ Expire

Spec == Init /\ [][Next]_vars

\* One upload, on a queue that may deliver its message again.
NextRedeliver ==
    \/ \E p \in Projects, d \in Files : UploadBegin(1, p, d)
    \/ Step(1)
    \/ Tick
    \/ Expire
    \/ Redeliver(1)

SpecRedeliver == Init /\ [][NextRedeliver]_vars

\* One upload, every message delivered once.
NextOne ==
    \/ \E p \in Projects, d \in Files : UploadBegin(1, p, d)
    \/ Step(1)
    \/ Tick
    \/ Expire

SpecOne == Init /\ [][NextOne]_vars

\* The same, with workers that keep taking and running what the queue holds
\* and a clock that keeps running.
SpecOneFair == SpecOne /\ WF_vars(Step(1)) /\ WF_vars(Tick)

\* POST /compare on a project of two enriched images.
NextCompare ==
    \/ \E project_id \in Projects, sequence_1 \in SequenceArgs,
          sequence_2 \in SequenceArgs :
           CompareRequest(project_id, sequence_1, sequence_2)
    \/ CompareResolve
    \/ CompareCache

SpecCompare == InitEnriched /\ [][NextCompare]_vars

\* POST /compare on an index that also holds a record not yet enriched.
NextCompareForeign ==
    \/ NextCompare
    \/ IndexForeignWrite

SpecCompareForeign == InitEnriched /\ [][NextCompareForeign]_vars

\* POST /query on a project of two enriched images.
NextQuery ==
    \/ req.pc = "idle" /\ \E payload \in Payloads : QueryRequest(payload)
    \/ QueryCompare
    \/ QuerySequence
    \/ QueryAnswer
    \/ QueryGeneral
    \/ QueryCache

SpecQuery == InitEnriched /\ [][NextQuery]_vars

\* One call of the comparison service.
NextCall == lc.pc = "idle" /\ \E pair \in Pairs : Call(pair[1], pair[2])

SpecCall == Init /\ [][NextCall]_vars

\* A call of send_message.
NextSend ==
    \/ \E message \in Messages, retries \in 0..MaxSendRetries :
           SendMessage(message, retries)
    \/ SendAttempt
    \/ SendSleep

SpecSend == Init /\ [][NextSend]_vars

\* Two calls of the comparison service, the second on the same words.
NextCallAgain ==
    \/ /\ lc.pc = "idle"
       /\ \E image_1_desc \in LowerTexts, image_2_desc \in LowerTexts :
              Call(image_1_desc, image_2_desc)
    \/ /\ lc.pc = "called"
       /\ \E image_1_desc \in SameWords(lc.image_1_desc),
             image_2_desc \in SameWords(lc.image_2_desc) :
              CallAgain(image_1_desc, image_2_desc)

SpecCallAgain == Init /\ [][NextCallAgain]_vars

\* One upload, on a cache that another writer shares.
NextForeign ==
    \/ \E p \in Projects, d \in Files : UploadBegin(1, p, d)
    \/ Step(1)
    \/ Tick
    \/ Expire
    \/ \E text \in Malformed : CacheForeignWrite(1, text)

SpecForeign == Init /\ [][NextForeign]_vars

\* One upload whose message is delivered a second time while its first
\* delivery is at work or waits for a retry: two attempts for one image_id
\* run side by side.
NextRace ==
    \/ \E p \in Projects, d \in Files : UploadBegin(1, p, d)
    \/ Step(1)
    \/ DeliverAgain(1)
    \/ Attempt(Stale)
    \/ Tick
    \/ Expire

SpecRace == Init /\ [][NextRace]_vars

\* One upload and one comparison sent by a client, both tasks at work.
NextTasks ==
    \/ \E p \in Projects, d \in Files : UploadBegin(1, p, d)
    \/ Step(1)
    \/ CompareStep
    \/ Tick
    \/ Expire

SpecTasks == Init /\ [][NextTasks]_vars

\* ---------------------------------------------------------------- claims
\* The uploads of project p that were answered 200.
Uploaded(p) == {u \in Uploads : up[u].pc = "done" /\ up[u].project_id = p}

\* C1: no two records of one project in the index hold the same sequence
\* number, however the count reads of two uploads interleave.
C1_UniqueSequenceInIndex ==
    \A i, j \in DOMAIN index :
        (i # j /\ index[i].project_id = index[j].project_id)
            => index[i].sequence_number # index[j].sequence_number

\* C2: within a project, an upload answered after another one holds a strictly
\* larger sequence number, whether the earlier record is indexed yet or not.
C2_SequenceIncreasesInUploadOrder ==
    \A a, b \in 1..Len(order) :
        (a < b /\ up[order[a]].project_id = up[order[b]].project_id)
            => up[order[a]].sequence_number < up[order[b]].sequence_number

\* C3: once no upload is under way and every uploaded image of a project is
\* in the index, the project's sequence numbers are exactly 1..n.
C3_ContiguousFromOne ==
    \A p \in Projects :
        ( /\ \A u \in Uploads : up[u].pc \in {"idle", "done", "failed"}
          /\ Uploaded(p) \subseteq DOMAIN index )
            => {index[u].sequence_number : u \in Uploaded(p)}
                   = 1..Cardinality(Uploaded(p))

\* An attempt of an invocation (t before the step, tn after it) ends in this
\* step with an exception that reached the except clause of its task (it was
\* not killed by the time limit).
Raises(t, tn) ==
    /\ t.state = "STARTED"
    /\ tn.state \in {"RETRY", "FAILURE"}
    /\ tn.error # "TimeLimitExceeded"

AttemptRaises(u) == Raises(task[u], task'[u])

\* The delay a retry is sent with, for retries = 0, 1, 2.
BackoffOfCode == <<1, 2, 4>>
BackoffOfClaim == <<2, 4, 8>>

RetriedWith(t, tn, delays) ==
    (Raises(t, tn) /\ t.retries < max_retries)
        => /\ tn.state = "RETRY"
           /\ tn.retries = t.retries + 1
           /\ tn.countdown = delays[t.retries + 1]

BothRetriedWith(delays) ==
    /\ \A u \in Uploads : RetriedWith(task[u], task'[u], delays)
    /\ RetriedWith(ctask, ctask', delays)

\* C4 (as claimed): an attempt of process_image_task or compare_images_task
\* that fails with retry_count < 3 is sent again with retry_count + 1 and a
\* delay of 2 * 2^retry_count seconds: 2, 4, 8.
C4_BackoffTwoFourEight == [][BothRetriedWith(BackoffOfClaim)]_vars

\* C4 (amended): such an attempt is sent again with retry_count + 1 and a
\* delay of 2^retry_count seconds: 1, 2, 4.
C4_BackoffOneTwoFour == [][BothRetriedWith(BackoffOfCode)]_vars

\* process_image_task has been retried, and the third failure of
\* compare_images_task, after both images were found, has just been answered
\* with the longest delay.
C4_Witness ==
    /\ \E u \in Uploads : task[u].state = "SUCCESS" /\ task[u].retries = 1
    /\ ctask.state = "RETRY" /\ ctask.retries = 3 /\ ctask.countdown = 4
    /\ ctask.compare_calls > 0

\* The result the pipeline returns for the record it has stored.
ResultFor(rec) ==
    [status |-> "success", project_id |-> rec.project_id, image_id |-> rec.image_id,
     caption |-> rec.text_description,
     embedding_dimension |-> {Len(e) : e \in rec.embedding},
     sequence_number |-> rec.sequence_number]

\* C5: an invocation that fails on attempts 1 and 2 is given its third
\* attempt, and when that one succeeds the run has made exactly one index
\* write, the task is a success returning the pipeline result and no permanent
\* failure was reported.
C5_SuccessOnThirdAttempt ==
    \A u \in Uploads :
        /\ (task[u].state = "FAILURE" /\ task[u].error = "exc")
              => task[u].executions > 2
        /\ (task[u].state = "SUCCESS" /\ task[u].executions = 3)
              => /\ task[u].index_writes = 1
                 /\ task[u].failures = 0
                 /\ u \in DOMAIN index
                 /\ task[u].result = {ResultFor(index[u])}

C5_Witness ==
    \E u \in Uploads :
        task[u].state = "SUCCESS" /\ task[u].executions = 3 /\ task[u].retries = 2

\* What holds of the retry budget in every state.
RetryBudget(u) ==
    /\ task[u].retries <= max_retries
    /\ task[u].executions <= max_retries + 1
    /\ task[u].failures <= 1
    /\ (task[u].state = "FAILURE") <=> (task[u].failures = 1)
    /\ (task[u].state = "FAILURE" /\ task[u].error = "exc")
          => (task[u].retries = max_retries /\ task[u].executions = max_retries + 1)

\* What holds of every step: a retry is sent only below the budget, a failure
\* at the budget is reported, and a failed invocation is never sent again.
RetryStep(u) ==
    /\ (task[u].state # "RETRY" /\ task'[u].state = "RETRY")
          => task[u].retries < max_retries
    /\ (AttemptRaises(u) /\ task[u].retries >= max_retries)
          => (task'[u].state = "FAILURE" /\ task'[u].failures = task[u].failures + 1)
    /\ task[u].state = "FAILURE" => task'[u] = task[u]

\* C6: an invocation that fails on every attempt is sent again only while
\* retry_count < 3; at retry_count >= 3 it is marked failed, never sent again,
\* and reported exactly once.
C6_PermanentFailureOnce ==
    /\ [](\A u \in Uploads : RetryBudget(u))
    /\ [][\A u \in Uploads : RetryStep(u)]_vars

C6_Witness ==
    \E u \in Uploads :
        /\ task[u].state = "FAILURE" /\ task[u].error = "exc"
        /\ task[u].executions = 4 /\ task[u].failures = 1

\* A record of the index that lacks nothing.
Complete(rec) ==
    /\ rec.embedding = {generate_image_embedding(blob[rec.s3_key])}
    /\ rec.text_description = {generate_caption(blob[rec.s3_key])}
    /\ rec.metadata.size_bytes # {}

\* The index changes only in the store step of an attempt whose fetch,
\* embedding and caption steps have all assigned their results; a step in
\* which an attempt fails or is killed leaves it as it is.
IndexStep ==
    /\ index' # index
          => \E u \in Uploads :
                /\ task[u].state = "STARTED" /\ task[u].pc = "store"
                /\ task[u].image_data # {} /\ task[u].embedding # {}
                /\ task[u].caption # {}
                /\ index' = store_image(index, ImageRecord(u, task[u]))
    /\ \A u \in Uploads :
          (task[u].state = "STARTED" /\ task'[u].state \in {"RETRY", "FAILURE"})
              => index' = index

\* C7: every record in the index carries its embedding and its
\* text_description; store_image runs only after the fetch, the embedding step
\* and the caption step of the same attempt, and a failure or a cancellation
\* leaves the index unchanged.
C7_NoPartialRecord ==
    /\ [](\A i \in DOMAIN index : Complete(index[i]))
    /\ [][IndexStep]_vars

\* A record was written by an attempt that followed a failed one.
C7_Witness ==
    \E u \in Uploads :
        /\ u \in DOMAIN index /\ task[u].executions >= 2
        /\ Complete(index[u])

\* Attempt u leaves its lookup at position pc in this step, and the Redis read
\* of the lookup did not fail.
LookupAnswered(u, pc) ==
    /\ task[u].state = "STARTED" /\ task[u].pc = pc
    /\ task'[u].state = "STARTED" /\ task'[u].pc # pc
    /\ faults' = faults

\* A lookup that finds an entry under the key uses it and calls no capability.
CacheHitStep(u) ==
    /\ (LookupAnswered(u, "emb_get") /\ embedding_key(u) \in DOMAIN cache)
          => /\ task'[u].pc = "cap_get"
             /\ task'[u].embedding = {json_loads(cache[embedding_key(u)])}
             /\ task'[u].embed_calls = task[u].embed_calls
    /\ (LookupAnswered(u, "cap_get") /\ caption_key(u) \in DOMAIN cache)
          => /\ task'[u].pc = "store"
             /\ task'[u].caption = {cache[caption_key(u)]}
             /\ task'[u].caption_calls = task[u].caption_calls

\* C8: with an entry under embedding:X (caption:X) in the cache, an attempt for
\* X does not call the embedding (caption) capability and uses the entry; so a
\* second enrichment right after a successful one calls no capability.
C8_CacheHitShortCircuits ==
    /\ [][\A u \in Uploads : CacheHitStep(u)]_vars
    /\ [](\A u \in Uploads :
            (task[u].deliveries = 2 /\ faults = 0)
                => (task[u].embed_calls <= 1 /\ task[u].caption_calls <= 1))

\* C9 (as claimed): over all attempts for one image each capability is called
\* at most once.
C9_AtMostOncePerImage ==
    \A u \in Uploads : task[u].embed_calls <= 1 /\ task[u].caption_calls <= 1

\* The attempts of u that have gone past the call of a capability, given the
\* positions that come before it.
AttemptsPast(u, before) ==
    IF task[u].state = "STARTED" /\ task[u].pc \in before
    THEN task[u].executions - 1
    ELSE task[u].executions

\* C9 (amended): each attempt calls each capability at most once, so over the
\* attempts for one image a capability is called at most once per attempt.
C9_AtMostOncePerAttempt ==
    \A u \in Uploads :
        /\ task[u].embed_calls <= AttemptsPast(u, {"fetch", "emb_get", "emb_call"})
        /\ task[u].caption_calls
              <= AttemptsPast(u, {"fetch", "emb_get", "emb_call", "cap_get", "cap_call"})

\* The embedding capability was called again by the second attempt.
C9_Witness ==
    \E u \in Uploads : task[u].embed_calls = 2 /\ task[u].executions = 2

\* C10: a run of the pipeline for an image whose record is in the index, with
\* the same arguments, leaves the index as it was: one record for the image,
\* with the same embedding, text_description and metadata.
C10_RerunLeavesIndex ==
    /\ [][\A u \in Uploads :
            (u \in DOMAIN index /\ task[u].state = "STARTED"
                 /\ task'[u].state = "SUCCESS") => index' = index]_vars
    /\ [](\A u \in Uploads :
            Cardinality({i \in DOMAIN index : index[i].image_id = u}) <= 1)

\* The second run has written its record from cache hits alone.
C10_Witness ==
    \E u \in Uploads :
        /\ task[u].index_writes = 2
        /\ task[u].embed_calls = 1 /\ task[u].caption_calls = 1

\* The record one attempt alone writes for the image of upload u: the
\* arguments the upload sent and what the capabilities return for the stored
\* body.
SingleAttemptRecord(u) ==
    [project_id |-> up[u].project_id, image_id |-> u, s3_key |-> up[u].s3_key,
     filename |-> filename_of(up[u].s3_key),
     embedding |-> {generate_image_embedding(blob[up[u].s3_key])},
     sequence_number |-> up[u].sequence_number,
     text_description |-> {generate_caption(blob[up[u].s3_key])},
     metadata |-> [size_bytes |-> {size_bytes(blob[up[u].s3_key])}]]

\* The deliveries at work for the image of upload u.
AttemptsFor(u) == {s \in Slots : task[s].image_id = u}

\* C11: when two attempts for one image_id run side by side, however their
\* blob fetches, cache reads and writes, capability calls and index writes
\* interleave, once either has written, the index holds exactly one record
\* for the image and it is the record one attempt alone writes.
C11_ConcurrentAttemptsOneRecord ==
    \A u \in Uploads :
        (\E s \in AttemptsFor(u) : task[s].index_writes > 0)
            => /\ Cardinality({i \in DOMAIN index : index[i].image_id = u}) = 1
               /\ index[u] = SingleAttemptRecord(u)

\* Both deliveries have written the record, the first one in a retry, and only
\* one of the two called the embedding capability: the other read the entry
\* the first had cached.
C11_Witness ==
    /\ task[Stale].state = "SUCCESS" /\ task[Stale].index_writes = 1
    /\ task[1].state = "SUCCESS" /\ task[1].index_writes = 1
    /\ task[1].retries > 0
    /\ task[1].embed_calls + task[Stale].embed_calls = 1

\* The step of attempt s in which cache.get or cache.set has logged an error
\* goes on as a miss does (get) or as a write does (set).
CacheErrorStep(s) ==
    task'[s].cache_errors > task[s].cache_errors
        => /\ task'[s].state = "STARTED"
           /\ task[s].pc = "emb_get" => task'[s].pc = "emb_call"
           /\ task[s].pc = "emb_call"
                 => /\ task'[s].pc = "cap_get"
                    /\ task'[s].embedding
                          = {generate_image_embedding(ValueOf(task[s].image_data))}
           /\ task[s].pc = "cap_get" => task'[s].pc = "cap_call"
           /\ task[s].pc = "cap_call"
                 => /\ task'[s].pc = "store"
                    /\ task'[s].caption = {generate_caption(ValueOf(task[s].image_data))}

\* An attempt that has come to the index write holds the values computed
\* for the bytes it fetched.
StoresComputed(s) ==
    (task[s].state = "STARTED" /\ task[s].pc = "store")
        => /\ task[s].embedding = {generate_image_embedding(ValueOf(task[s].image_data))}
           /\ task[s].caption = {generate_caption(ValueOf(task[s].image_data))}

\* C12: an error of the cache never fails the attempt: a cache.get that
\* errors is taken as a miss and the capability is called, a cache.set that
\* errors is ignored, and the attempt comes to the index write with the
\* computed values.
C12_CacheFailureNeverFails ==
    /\ [][\A s \in Slots : CacheErrorStep(s)]_vars
    /\ [](\A s \in Slots : StoresComputed(s))

\* Both reads and both writes of the cache failed in the one attempt that
\* wrote the record.
C12_Witness ==
    /\ task[1].state = "SUCCESS" /\ task[1].executions = 1
    /\ task[1].cache_errors = 4
    /\ task[1].embed_calls = 1 /\ task[1].caption_calls = 1
    /\ cache = <<>>
    /\ index[1] = SingleAttemptRecord(1)

\* The lookup of attempt s reads, without a Redis error, an entry under the
\* embedding key that is not a well-formed serialized vector.
ReadsMalformed(s) ==
    /\ task[s].state = "STARTED" /\ task[s].pc = "emb_get"
    /\ task'[s] # task[s] /\ faults' = faults
    /\ embedding_key(task[s].image_id) \in DOMAIN cache
    /\ ~json_valid(cache[embedding_key(task[s].image_id)])

\* C13: an attempt that finds a malformed entry under embedding:<image_id>
\* takes it as a miss: it goes on to call the embedding capability (which
\* overwrites the entry) and is not failed.
C13_MalformedEntryIsMiss ==
    [][\A s \in Slots :
          ReadsMalformed(s) => (task'[s].state = "STARTED" /\ task'[s].pc = "emb_call")]_vars

\* Some attempt for the image of upload u has called the capability counted
\* in the given field.
Called(u, calls) == \E s \in AttemptsFor(u) : task[s][calls] > 0

\* Every entry of the cache is, under embedding:<image_id>, the JSON text of
\* what the embedding capability returns for the image's stored bytes and,
\* under caption:<image_id>, what the caption capability returns for them;
\* and the capability has been called for the image.
EntriesComputed ==
    /\ DOMAIN cache \subseteq {embedding_key(u) : u \in Uploads}
                               \cup {caption_key(u) : u \in Uploads}
    /\ \A u \in Uploads :
          /\ embedding_key(u) \in DOMAIN cache
                => /\ cache[embedding_key(u)]
                         = json_dumps(generate_image_embedding(blob[up[u].s3_key]))
                   /\ Called(u, "embed_calls")
          /\ caption_key(u) \in DOMAIN cache
                => /\ cache[caption_key(u)] = generate_caption(blob[up[u].s3_key])
                   /\ Called(u, "caption_calls")

\* The keys written in this step.
Written == {k \in DOMAIN cache' : k \notin DOMAIN cache \/ cache'[k] # cache[k]}

\* Attempt s goes, in this step, from the call of a capability on the bytes
\* it fetched to the next position of the pipeline: the call has returned.
CallReturned(s) ==
    /\ task[s].state = "STARTED" /\ task[s].pc \in {"emb_call", "cap_call"}
    /\ task[s].image_data # {}
    /\ task'[s].state = "STARTED" /\ task'[s].pc \in {"cap_get", "store"}

\* Only the step in which a capability call returns writes to the cache, and
\* the step in which an attempt fails writes nothing.
CacheWriteStep ==
    /\ Written # {} => \E s \in Slots : CallReturned(s)
    /\ \A s \in Slots :
          (task[s].state = "STARTED" /\ task'[s].state \in {"RETRY", "FAILURE"})
              => Written = {}

\* C14: in every state each value under embedding:<image_id> or
\* caption:<image_id> is the value a successful call of the capability
\* returned for that image's bytes, and no attempt whose blob fetch or
\* capability call failed writes an entry.
C14_EntriesAreComputedResults ==
    /\ []EntriesComputed
    /\ [][CacheWriteStep]_vars

\* The cache holds the entries of two images with different bytes, while the
\* attempt that wrote those of the first has failed at the index write.
C14_Witness ==
    /\ DOMAIN cache = {embedding_key(1), caption_key(1),
                       embedding_key(2), caption_key(2)}
    /\ cache[embedding_key(1)] # cache[embedding_key(2)]
    /\ task[1].state = "RETRY" /\ task[1].index_writes = 0

\* The chunks i..j of a text are one of its whitespace-separated tokens.
TokenAt(text, i, j) ==
    /\ i <= j
    /\ \A k \in i..j : text[k] # " "
    /\ i = 1 \/ text[i - 1] = " "
    /\ j = Len(text) \/ text[j + 1] = " "

\* The lower-cased tokens of a text.
TokensOf(text) ==
    {lower(SubSeq(text, i, j)) : <<i, j>> \in
        {ij \in (1..Len(text)) \X (1..Len(text)) : TokenAt(text, ij[1], ij[2])}}

\* Some lower-cased token occurs in text a and not in text b.
OnlyIn(a, b) == TokensOf(a) \ TokensOf(b) # {}

\* The change entries the call returned, and their types in order.
Changes == (CHOOSE r \in lc.response : TRUE).changes
TypesOf(changes) == [i \in 1..Len(changes) |-> changes[i].type]
HasType(changes, type) == \E i \in 1..Len(changes) : changes[i].type = type

\* A text holds the chunks of a word, one after the other.
Contains(text, word) ==
    \E i \in 1..Len(text) :
        i + Len(word) - 1 <= Len(text) /\ SubSeq(text, i, i + Len(word) - 1) = word

\* C17: _detect_changes returns an addition entry exactly when some
\* lower-cased whitespace-separated token occurs only in the second
\* description, and a removal entry exactly when some token occurs only in the
\* first; "a red car" against "a red car parked" gives an addition that names
\* "parked" and no removal.
C17_AdditionAndRemoval ==
    lc.pc = "called"
        => /\ HasType(Changes, "addition") <=> OnlyIn(lc.image_2_desc, lc.image_1_desc)
           /\ HasType(Changes, "removal") <=> OnlyIn(lc.image_1_desc, lc.image_2_desc)
           /\ (lc.image_1_desc = RedCar /\ lc.image_2_desc = RedCarParked)
                 => /\ \E i \in 1..Len(Changes) :
                          /\ Changes[i].type = "addition"
                          /\ Contains(Changes[i].description, <<"parked">>)
                    /\ ~HasType(Changes, "removal")

\* The call on "a red car" and "a red car parked" has returned its one entry.
C17_Witness ==
    /\ lc.pc = "called"
    /\ lc.image_1_desc = RedCar /\ lc.image_2_desc = RedCarParked
    /\ Changes = <<[type |-> "addition",
                    description |-> <<"New elements detected: ", "parked">>]>>

\* C18: two descriptions with the same token sets (two identical ones among
\* them) give exactly one entry, of type similar; a similar entry never comes
\* with an addition or a removal, and the list of changes is never empty.
C18_SimilarAlone ==
    lc.pc = "called"
        => /\ Changes # <<>>
           /\ (~OnlyIn(lc.image_1_desc, lc.image_2_desc)
                   /\ ~OnlyIn(lc.image_2_desc, lc.image_1_desc))
                 => TypesOf(Changes) = <<"similar">>
           /\ lc.image_1_desc = lc.image_2_desc => TypesOf(Changes) = <<"similar">>
           /\ HasType(Changes, "similar") => Len(Changes) = 1

\* Two descriptions that differ in case and in order, and hold the same
\* tokens, were found similar.
C18_Witness ==
    /\ lc.pc = "called"
    /\ lc.image_1_desc = <<"A", " ", "b">> /\ lc.image_2_desc = <<"b", " ", "a">>
    /\ TypesOf(Changes) = <<"similar">>

\* The tokens an entry names: what its description lists after the heading,
\* between the separators ", ".
RECURSIVE Listed(_)
Listed(text) ==
    IF text = <<>> THEN {}
    ELSE IF \E i \in 1..Len(text) : text[i] = ", "
    THEN LET i == CHOOSE k \in 1..Len(text) :
                      text[k] = ", " /\ \A j \in 1..(k - 1) : text[j] # ", "
         IN  {SubSeq(text, 1, i - 1)} \cup Listed(SubSeq(text, i + 1, Len(text)))
    ELSE {text}

Named(change) == Listed(Tail(change.description))

ChangesAgain == (CHOOSE r \in lc.again : TRUE).changes

\* C19: a second run on descriptions that hold the same tokens, in another
\* order or repeated, returns the same list of change types and names the same
\* tokens in each entry; on the same two descriptions it returns the same
\* entries.
C19_DeterministicOrderInsensitive ==
    lc.pc = "again"
        => /\ TypesOf(ChangesAgain) = TypesOf(Changes)
           /\ \A i \in 1..Len(Changes) : Named(ChangesAgain[i]) = Named(Changes[i])
           /\ (lc.again_1_desc = lc.image_1_desc /\ lc.again_2_desc = lc.image_2_desc)
                 => ChangesAgain = Changes

\* ------------------------------------------------------------------- C16
\* The cache key of the POST /compare request being served or last answered.
RequestKey(r) == comparison_key(r.project_id, r.sequence_1, r.sequence_2)

\* A step in which POST /compare takes up a request.
CompareArrives == req.pc = "idle" /\ req' # req /\ req'.route = "compare"

\* The cached comparisons are responses POST /compare computed for their key.
CachedAreComputed ==
    \A key \in DOMAIN cache :
        key[1] = "comparison" =>
            \E pair \in req.computed :
                pair[1] = key /\ cache[key] = model_dump_json(pair[2])

\* The request taken up is answered in that step, from the cache, with the
\* stored response, which compares the two sequence numbers it names; the
\* index is not looked up and nothing is classified.
AnsweredFromCache ==
    /\ req'.pc = "idle" /\ req'.hit /\ req'.status = 200
    /\ req'.response = {model_validate_json(cache[RequestKey(req')])}
    /\ \A r \in req'.response :
            /\ r.image_1.sequence_number = req'.sequence_1
            /\ r.image_2.sequence_number = req'.sequence_2
    /\ req'.index_lookups = req.index_lookups
    /\ req'.classifications = req.classifications
    /\ cache' = cache

NonEmptyDescriptions(r) ==
    Cardinality({i \in {1, 2} :
                    (IF i = 1 THEN r.image_1 ELSE r.image_2).description # <<>>})

\* C20: the confidence of a comparison response is below 1 and equals the
\* fraction of its two descriptions that are non-empty, times a fixed
\* damping factor below 1 (confidences and the factor in hundredths): two
\* empty descriptions give 0.
C20_ConfidenceFromCompleteness ==
    req.route = "compare" =>
        \A r \in req.response :
            /\ r.confidence >= 0 /\ r.confidence < 100
            /\ \E damping \in 1..99 :
                   2 * r.confidence = damping * NonEmptyDescriptions(r)
\* ------------------------------------------------------------------- C15
\* One of the two sequence numbers has no record in the project.
Unresolved(project_id, sequence_1, sequence_2) ==
    \/ get_by_sequence(project_id, sequence_1) = {}
    \/ get_by_sequence(project_id, sequence_2) = {}

\* The two sequence numbers a request asks to compare, if it asks that.
ComparedBy(r) ==
    IF r.route = "compare" THEN {<<r.sequence_1, r.sequence_2>>}
    ELSE IF r.route = "query" /\ r.comparison_sequences # None
            /\ Len(ValueOf(r.comparison_sequences)) >= 2
         THEN {<<ValueOf(r.comparison_sequences)[1],
                 ValueOf(r.comparison_sequences)[2]>>}
    ELSE {}

\* The queued task: the lookup that finds a sequence number unresolved ends
\* the task with the not-found result, nothing fetched and nothing compared,
\* and a task so ended stays ended.
NotFoundEndsTask ==
    /\ (/\ ctask.state = "STARTED" /\ ctask.pc = "lookup" /\ ctask' # ctask
         /\ faults' = faults
         /\ Unresolved(ctask.project_id, ctask.sequence_1, ctask.sequence_2))
            => /\ ctask'.state = "SUCCESS"
               /\ \A result \in ctask'.result : result.status = "error"
               /\ ctask'.result # {}
               /\ ctask'.image_1_data = {} /\ ctask'.image_2_data = {}
               /\ ctask'.compare_calls = ctask.compare_calls
               /\ ctask'.retries = ctask.retries
    /\ (ctask.state = "SUCCESS" /\ \E result \in ctask.result : result.status = "error")
            => ctask' = ctask

\* The routes: the step that answers a comparison of an unresolved sequence
\* number, nothing failing in it, answers 404, with no blob fetched and
\* nothing classified.
NotFoundAnswers404 ==
    (/\ req'.served > req.served /\ faults' = faults
     /\ \E pair \in ComparedBy(req') :
            Unresolved(req'.project_id, pair[1], pair[2]))
        => /\ req'.status = 404
           /\ req'.blob_fetches = req.blob_fetches
           /\ req'.classifications = req.classifications

\* C15: a comparison one of whose sequence numbers does not resolve to a
\* record of the project ends not-found: the queued task is not retried,
\* POST /compare and POST /query answer 404, and no blob is fetched and
\* nothing is compared or classified.
C15_NotFoundIsTerminal == [][NotFoundEndsTask /\ NotFoundAnswers404]_vars
\* ------------------------------------------------------------------- C21
\* The queued task: the step that returns the result of a comparison is the
\* one call of the comparison capability of that attempt, made with both
\* records resolved and both bodies fetched.
TaskComparesFetched ==
    (ctask.state = "STARTED" /\ ctask'.state = "SUCCESS"
     /\ \E result \in ctask'.result : result.status = "success")
        => /\ ctask.pc = "compare"
           /\ ctask.image_1 # {} /\ ctask.image_2 # {}
           /\ ctask.image_1_data # {} /\ ctask.image_2_data # {}
           /\ ctask'.compare_calls = ctask.compare_calls + 1

\* POST /compare: the step that assembles the response of a comparison has
\* the bodies of both images, fetched by that request.
RouteComparesFetched ==
    (req.pc = "compare_images" /\ req'.pc = "cache_set")
        => req'.blob_fetches >= req.blob_fetches + 2

\* C21: a successful comparison, by POST /compare or by compare_images_task,
\* resolves both sequence numbers, then fetches the bytes of both images
\* from the blob store, then calls the comparison capability once with both
\* bodies, and only then assembles its response.
C21_ResolveFetchCompareAssemble ==
    [][TaskComparesFetched /\ RouteComparesFetched]_vars
\* ------------------------------------------------------------------- C22
\* The deliveries of the message of invocation u that a worker is running.
Executing(u) == {s \in Slots : task[s].state = "STARTED" /\ task[s].image_id = u}

\* An attempt of u begins only when no attempt of u is at work and the
\* countdown of the message has run out.
BeginsAfterBackoff(u) ==
    task'[u].executions = task[u].executions + 1
        => /\ task[u].state \in {"PENDING", "RETRY"}
           /\ task[u].pc = "" /\ task[u].image_data = {}
           /\ task[u].countdown = 0
           /\ task'[u].state = "STARTED"

\* The message is sent again only by the step that ends an attempt, with the
\* backoff as its countdown, and the countdown runs down second by second.
ResentAtEndOfAttempt(u) ==
    /\ task'[u].retries # task[u].retries
           => /\ task[u].state = "STARTED" /\ task'[u].state = "RETRY"
              /\ task'[u].pc = ""
              /\ task'[u].retries = task[u].retries + 1
              /\ task'[u].countdown = retry_countdown(task[u].retries)
    /\ (task[u].state = "RETRY" /\ task'[u].countdown # task[u].countdown)
           => task'[u].state = "RETRY" /\ task'[u].countdown = task[u].countdown - 1

\* C22: with every message delivered once, a retry of an invocation starts
\* only after the previous attempt has ended and its backoff has elapsed, the
\* message being sent again only at the end of a failed attempt; no two
\* attempts of one invocation execute at the same time.
C22_RetriesAreSequential ==
    /\ [](\A u \in Uploads : Cardinality(Executing(u)) <= 1)
    /\ [][\A u \in Uploads : BeginsAfterBackoff(u) /\ ResentAtEndOfAttempt(u)]_vars

\* A retry is at work, its second backoff behind it.
C22_Witness ==
    \E u \in Uploads : task[u].state = "STARTED" /\ task[u].retries >= 2
\* ------------------------------------------------------------------- C23
\* The handler of upload u goes from the sequence read to the blob write to
\* the enqueue, or fails.
UploadInOrder(u) ==
    up'[u].pc # up[u].pc
        => \/ up[u].pc = "idle" /\ up'[u].pc \in {"blob", "failed"}
           \/ up[u].pc = "blob" /\ up'[u].pc \in {"enqueue", "failed"}
           \/ up[u].pc = "enqueue" /\ up'[u].pc \in {"done", "failed"}

\* What each position of the handler has behind it: the sequence number
\* before the blob write, the stored body and sidecar before the enqueue; and
\* a task exists only for an upload that went through.
UploadBehind(u) ==
    /\ up[u].pc \in {"blob", "enqueue", "done"} => up[u].sequence_number >= 1
    /\ up[u].pc \in {"enqueue", "done"}
           => /\ up[u].s3_key \in DOMAIN blob
              /\ generate_md5_key(up[u].s3_key) \in DOMAIN blob
    /\ task[u].state # "NONE"
           => /\ up[u].pc = "done" /\ up[u].status = 200
              /\ task[u].s3_key = up[u].s3_key /\ task[u].s3_key \in DOMAIN blob
    /\ u \in DOMAIN index => task[u].executions >= 1
    /\ up[u].pc = "failed"
           => /\ up[u].status = 500
              /\ task[u].state = "NONE" /\ u \notin DOMAIN index

\* The record of image u is written by an attempt a worker is running.
IndexedByClaimedTask(u) ==
    (u \in DOMAIN index' /\ (u \notin DOMAIN index \/ index'[u] # index[u]))
        => task[u].state = "STARTED" /\ up[u].pc = "done"

\* A failing blob write takes the handler out: no task, no record.
BlobFailureEndsUpload(u) ==
    (up[u].pc = "blob" /\ up'[u].pc = "failed")
        => /\ task' = task /\ index' = index /\ order' = order
           /\ up'[u].status = 500

\* C23: an upload reads the sequence count, writes the blob and enqueues the
\* task, in that order; the record of an image is written only after its
\* task was enqueued and claimed; an upload whose blob write fails enqueues
\* no task, writes nothing to the index and is answered with a failure.
C23_UploadOrder ==
    /\ [](\A u \in Uploads : UploadBehind(u))
    /\ [][\A u \in Uploads : /\ UploadInOrder(u) /\ IndexedByClaimedTask(u)
                              /\ BlobFailureEndsUpload(u)]_vars

\* An upload has failed in its blob write, the body stored and the sidecar
\* not.
C23_Witness ==
    \E u \in Uploads, p \in Projects :
        /\ up[u].pc = "failed"
        /\ generate_s3_key(p, u) \in DOMAIN blob
        /\ generate_md5_key(generate_s3_key(p, u)) \notin DOMAIN blob
        /\ task[u].state = "NONE"
\* ------------------------------------------------------------------- C24
\* The calls upload_image makes for upload u and the dict it returns: two
\* calls, the image body under s3_key, which begins with the project and
\* "year=", then the digest as bytes, text/plain, under s3_key + ".md5".
TwoCallsBodyThenSidecar(u) ==
    LET calls == put_objects(up[u].project_id, u, up[u].data)
        result == upload_image_result(up[u].project_id, u, up[u].data)
    IN  /\ Len(calls) = 2
        /\ calls[1].Key = result.s3_key
        /\ result.s3_key[1] = up[u].project_id /\ result.s3_key[2] = "year="
        /\ calls[1].Body = compress_image(up[u].data)
        /\ calls[2].Key = result.md5_key
        /\ result.md5_key = Append(result.s3_key, ".md5")
        /\ calls[2].ContentType = "text/plain"
        /\ calls[2].Body = encode(result.md5_hash)

\* What a step of upload_image does to the bucket: returning, it has added
\* the objects of its two calls and nothing else; raising, it has added
\* nothing or the image body alone.
WritesBodyThenSidecar(u) ==
    LET calls == put_objects(up[u].project_id, u, up[u].data)
    IN  /\ (up[u].pc = "blob" /\ up'[u].pc = "enqueue")
               => /\ DOMAIN blob' = DOMAIN blob \cup {calls[1].Key, calls[2].Key}
                  /\ Cardinality(DOMAIN blob' \ DOMAIN blob) = 2
                  /\ blob'[calls[1].Key] = calls[1].Body
                  /\ blob'[calls[2].Key] = calls[2].Body
                  /\ \A k \in DOMAIN blob : blob'[k] = blob[k]
                  /\ up'[u].s3_key = calls[1].Key
        /\ (up[u].pc = "blob" /\ up'[u].pc = "failed")
               => /\ DOMAIN blob' \subseteq DOMAIN blob \cup {calls[1].Key}
                  /\ \A k \in DOMAIN blob : blob'[k] = blob[k]

\* C24: a successful upload_image makes exactly two blob-store writes, the
\* image body under s3_key (which starts with "<project_id>/year=") and then
\* the MD5 sidecar, as bytes of content type text/plain, under
\* s3_key + ".md5", which is the md5_key it returns.
C24_BodyThenSidecar ==
    /\ [](\A u \in Uploads : up[u].pc = "blob" => TwoCallsBodyThenSidecar(u))
    /\ [][\A u \in Uploads : WritesBodyThenSidecar(u)]_vars

\* An upload has returned from upload_image, its two objects in the bucket.
C24_Witness ==
    \E u \in Uploads :
        /\ up[u].pc = "enqueue"
        /\ blob[up[u].s3_key] = compress_image(up[u].data)
        /\ blob[generate_md5_key(up[u].s3_key)]
               = encode(calculate_md5(compress_image(up[u].data)))
\* ------------------------------------------------------------------- C25
\* The invocation is in the queue or at work; and it has ended.
Live(u) == task[u].state \in {"PENDING", "STARTED", "RETRY"}
Ended(u) == task[u].state \in {"SUCCESS", "FAILURE"}

\* C25: with workers and clock running, every enqueued enrichment invocation
\* ends, acknowledged as a success or marked failed, after at most
\* max_retries + 1 executions; none is retried or left pending forever.
C25_EveryInvocationEnds ==
    /\ \A u \in Uploads : Live(u) ~> Ended(u)
    /\ [](\A u \in Uploads : task[u].executions <= max_retries + 1)

\* An invocation has ended in failure with its last execution, the fourth.
C25_Witness ==
    \E u \in Uploads :
        /\ task[u].state = "FAILURE" /\ task[u].executions = max_retries + 1
        /\ task[u].retries = max_retries
\* ------------------------------------------------------------------- C26
\* The arguments a message carries.
ArgsOf(t) == <<t.project_id, t.image_id, t.s3_key, t.sequence_number>>

\* The arguments of invocation u are those upload u sent, and its record has
\* them.
CarriesUploadArgs(u) ==
    /\ task[u].state # "NONE"
           => ArgsOf(task[u]) = <<up[u].project_id, u, up[u].s3_key,
                                  up[u].sequence_number>>
    /\ u \in DOMAIN index
           => /\ index[u].sequence_number = up[u].sequence_number
              /\ index[u].project_id = up[u].project_id
              /\ index[u].s3_key = up[u].s3_key
              /\ index[u].image_id = u

\* A retry leaves the arguments and the upload's sequence number alone and
\* adds one to the retries.
RetryKeepsArgs(u) ==
    /\ task[u].state # "NONE"
           => /\ ArgsOf(task'[u]) = ArgsOf(task[u])
              /\ up'[u].sequence_number = up[u].sequence_number
    /\ task'[u].state = "RETRY" /\ task[u].state = "STARTED"
           => /\ task'[u].retries = task[u].retries + 1
              /\ task'[u].executions = task[u].executions
              /\ task'[u].deliveries = task[u].deliveries
              /\ index' = index

\* C26: every retry of an enrichment invocation carries the project_id,
\* image_id, s3_key and sequence_number of the original invocation; a retry
\* changes only the retry count, the sequence number is not read or assigned
\* again, and the record written has the sequence number of the upload.
C26_RetryCarriesArguments ==
    /\ [](\A u \in Uploads : CarriesUploadArgs(u))
    /\ [][\A u \in Uploads : RetryKeepsArgs(u)]_vars

\* The record of an image was written by a retry.
C26_Witness ==
    \E u \in Uploads :
        /\ u \in DOMAIN index /\ task[u].state = "SUCCESS" /\ task[u].retries >= 1
        /\ index[u].sequence_number = up[u].sequence_number
\* ------------------------------------------------------------------- C27
\* The handler of upload u is left in its first step with nothing in the
\* environment having failed: the file read was empty.
EmptyFileRejected(u) ==
    up[u].pc = "idle" /\ up'[u].pc = "failed" /\ faults' = faults

\* C27: an upload of an empty file is answered 400, before the sequence
\* count is read, before any blob write and before any task is enqueued.
C27_EmptyUploadIs400 ==
    [][\A u \in Uploads :
          EmptyFileRejected(u)
              => /\ up'[u].status = 400
                 /\ up'[u].sequence_number = 0
                 /\ blob' = blob /\ task' = task /\ index' = index]_vars
\* ------------------------------------------------------------------- C28
\* The sequence numbers of the images a POST /query request names: the two it
\* asks to compare or else the one it asks about; <<>> when it names none.
NamedBy(r) ==
    IF ComparedBy(r) # {}
    THEN LET pair == ValueOf(ComparedBy(r)) IN <<pair[1], pair[2]>>
    ELSE IF r.sequence_number # None THEN <<ValueOf(r.sequence_number)>>
    ELSE <<>>

\* The sequence numbers of the relevant_images of a response.
ShownBy(response) ==
    [i \in 1..Len(response.relevant_images) |->
        response.relevant_images[i].sequence_number]

\* C28: a POST /query request that names a sequence number, or two sequence
\* numbers to compare, and is answered 200 is answered about those images:
\* its relevant_images are the named ones, whatever was answered and cached
\* before for the same project and question.
C28_AnswersTheNamedImages ==
    [][(/\ req'.served > req.served /\ req'.route = "query"
        /\ req'.status = 200 /\ NamedBy(req') # <<>>)
           => \A response \in req'.response :
                  ShownBy(response) = NamedBy(req')]_vars
\* ------------------------------------------------------------------- C29
\* The responses the comparison cache holds.
CachedComparisons ==
    {model_validate_json(cache[key]) :
        key \in {k \in DOMAIN cache : k[1] = "comparison"}}

\* A response is the fallback of structure_comparison_response.
IsFallback(response) ==
    \/ response.changes = structure_comparison_fallback.changes
    \/ response.summary = structure_comparison_fallback.summary
    \/ response.confidence = structure_comparison_fallback.confidence

\* C29: every response POST /compare has stored in the comparison cache is a
\* computed comparison with a non-empty change list; the error fallback of
\* structure_comparison_response is never stored and never served to a later
\* identical request.
C29_FallbackNeverCached ==
    /\ [](\A response \in CachedComparisons : ~IsFallback(response))
    /\ [](req.route = "compare" /\ req.status = 200
              => \A response \in req.response : ~IsFallback(response))

\* A comparison of a record without description has fallen back and was
\* answered 500, nothing in the environment having failed, while the cache
\* holds a computed comparison.
C29_Witness ==
    /\ req.pc = "idle" /\ req.route = "compare" /\ req.status = 500
    /\ faults = 0
    /\ \E comparison_data \in
            compare_images_lookup(req.project_id, req.sequence_1, req.sequence_2) :
            Undescribed(comparison_data)
    /\ CachedComparisons # {}
\* ------------------------------------------------------------------- C30
\* The sleeps between n attempts: 1, 2, 4, ... seconds, one after each
\* attempt but the last.
SleepsBetween(n) == [i \in 1..(IF n > 0 THEN n - 1 ELSE 0) |-> pow2(i - 1)]

\* The call of send_message is over.
SendOver == sqs.pc \in {"returned", "raised"}

\* C30: send_message makes at most max_retries send attempts, returns at the
\* first that succeeds and makes no attempt after it, sleeps 2^attempt
\* seconds (1, 2, 4, ...) between attempts only, not after the last, and
\* raises exactly when all max_retries attempts have failed.
C30_SendRetriesBounded ==
    /\ [](/\ sqs.sends <= sqs.max_retries
           /\ sqs.enqueued <= 1
           /\ (sqs.pc = "returned"
                  => (/\ sqs.enqueued = 1
                      /\ sqs.slept = SleepsBetween(sqs.sends)))
           /\ (sqs.pc = "raised"
                  => (/\ sqs.enqueued = 0
                      /\ sqs.sends = sqs.max_retries
                      /\ sqs.slept = SleepsBetween(sqs.max_retries)))
           /\ ((SendOver /\ sqs.enqueued = 0) => sqs.pc = "raised")
           /\ (sqs.enqueued = 1 => sqs.pc = "returned"))
    /\ [][SendOver => sqs' = sqs]_vars

\* A call with max_retries = 3 has raised after three failed attempts and
\* sleeps of 1 and 2 seconds.
C30_Witness ==
    /\ sqs.pc = "raised" /\ sqs.max_retries = default_send_retries
    /\ sqs.sends = default_send_retries /\ sqs.slept = <<1, 2>>
====
